---- MODULE Spec2Model ----
(***************************************************************************)
(* State-machine model of campus-core: the timetable scheduling engine     *)
(* (TimetableService over TimetableRepository), the academic-year service, *)
(* the token life cycle of AuthService, the middleware chain that resolves *)
(* the active tenant, user management (UserService and the role services), *)
(* parent-student relations, the section counter of ClassService, the      *)
(* timetable lookups, SubjectService, the section endpoints, the           *)
(* permission and bearer-token middleware and the RateLimit middleware.    *)
(*                                                                         *)
(* Rows of a table are records; a table is the set of its rows that have   *)
(* deleted_at IS NULL (gorm's soft-delete scope hides every other row from *)
(* each query the services issue).  Strings that are only compared for     *)
(* equality are TLA+ strings; strings that are ordered (start_time,        *)
(* end_time) are sequences of character ranks compared lexicographically,  *)
(* as the SQL comparison of the VARCHAR columns does.                      *)
(***************************************************************************)
EXTENDS Integers, Sequences, FiniteSets, TLC

VARIABLES
    timetables,     \* rows of table timetables with deleted_at IS NULL
    nextTTId,       \* next primary key handed out to a timetable row
    ttResult,       \* outcome of the last timetable service call
    inflight,       \* per worker: the request between CheckConflict and the write
    academicYears,  \* rows of table academic_years with deleted_at IS NULL
    nextAYId,       \* next primary key handed out to an academic year
    ayResult,       \* outcome and target of the last academic-year service call
    probe,          \* a stored range, a candidate range and CheckConflict's verdict on them
    users,          \* users table: RefreshToken, ResetToken, PasswordHash, IsActive per user
    issued,         \* every token the JWTManager has signed so far
    expired,        \* the issued tokens whose exp lies in the past
    nextJti,        \* stands for uuid.New() / time.Now() of the next token
    authResult,     \* outcome of the last AuthService call
    redisUp,        \* database.RedisClient != nil
    cache,          \* institution ids with a live "institution:exists:" key in Redis
    ctx,            \* gin context of the last request after the middleware chain
    userRows,       \* rows of table users with deleted_at IS NULL
    userProfiles,   \* rows of table user_profiles
    roleRows,       \* rows of tables teachers, students, parents and accountants
    nextUserId,     \* stands for uuid.New() of the next user row
    umResult,       \* outcome of the last user-management service call
    relations,      \* rows of table parent_student_relations with deleted_at IS NULL
    nextRelId,      \* stands for uuid.New() of the next relation row
    linkResult,     \* outcome of the last LinkParent / UnlinkParent call
    sections,       \* rows of table sections with deleted_at IS NULL
    nextSectionId,  \* stands for uuid.New() of the next section row
    classSectionCount, \* column classes.section_count per class
    secInflight,    \* per worker: the section call between loading the class and saving it
    secResult,      \* outcome of the last CreateSection / DeleteSection call
    readResult,     \* what the last lookup returned, and to which tenant
    subjects,       \* rows of table subjects with deleted_at IS NULL
    nextSubjectId,  \* stands for uuid.New() of the next subject row
    subjResult,     \* outcome of the last SubjectService call
    secAdminResult, \* outcome of the last UpdateSection / DeleteSection request, with its caller
    permResult,     \* outcome of the last RequirePermission / RequireAnyPermission check
    bearerCtx,      \* gin context after AuthMiddleware and TenantMiddleware for the last bearer token sent
    ayInflight,     \* per worker: the academic-year Update between loading the row and saving it
    rateKey,        \* the redis counter of one rate-limit key: count 0 is a missing key, ttl whether it has an expiry
    rateInflight,   \* per worker: the count a request has read and not yet incremented
    ratePassed,     \* requests let through since the key was last created
    rateResult      \* outcome of the last RateLimit decision

ttVars == <<timetables, nextTTId, ttResult, inflight>>
ayVars == <<academicYears, nextAYId, ayResult>>
authVars == <<users, issued, expired, nextJti, authResult>>
tenantVars == <<redisUp, cache, ctx>>
userVars == <<userRows, userProfiles, roleRows, nextUserId, umResult>>
linkVars == <<relations, nextRelId, linkResult>>
sectionVars == <<sections, nextSectionId, classSectionCount, secInflight, secResult>>
mgmtVars == <<tenantVars, userVars, linkVars, sectionVars>>
coreVars == <<ttVars, ayVars, probe, authVars>>
subjectVars == <<subjects, nextSubjectId, subjResult>>
rateVars == <<rateKey, rateInflight, ratePassed, rateResult>>
extVars == <<readResult, subjects, nextSubjectId, subjResult, secAdminResult, permResult, bearerCtx, ayInflight, rateKey, rateInflight, ratePassed, rateResult>>
vars == <<timetables, nextTTId, ttResult, inflight, academicYears, nextAYId, ayResult, probe,
          users, issued, expired, nextJti, authResult,
          redisUp, cache, ctx, userRows, userProfiles, roleRows, nextUserId, umResult,
          relations, nextRelId, linkResult,
          sections, nextSectionId, classSectionCount, secInflight, secResult,
          readResult, subjects, nextSubjectId, subjResult, secAdminResult, permResult, bearerCtx, ayInflight, rateKey, rateInflight, ratePassed, rateResult>>

(***************************************************************************)
(* Bounds                                                                  *)
(***************************************************************************)
MaxTT == 2          \* timetable rows ever inserted
MaxAY == 3          \* academic years ever inserted

NoID == 0           \* a nil *uuid.UUID / an id not yet assigned

(***************************************************************************)
(* Tenants and the seeded academic structure the timetable refers to       *)
(***************************************************************************)
Tenants == {"instA", "instB"}

ClassRows == {[ID |-> "classA", InstitutionID |-> "instA"],
              [ID |-> "classB", InstitutionID |-> "instB"]}

SubjectRows == {[ID |-> "subjA", InstitutionID |-> "instA"],
                [ID |-> "subjB", InstitutionID |-> "instB"]}

\* a section carries no institution_id of its own: it belongs to its class
SectionRows == {[ID |-> "secA", ClassID |-> "classA"],
                [ID |-> "secB", ClassID |-> "classB"]}

TeacherRows == {[ID |-> "teachA", InstitutionID |-> "instA"],
                [ID |-> "teachB", InstitutionID |-> "instB"]}

SeedAcademicYears == {[ID |-> "ay1", InstitutionID |-> "instA", Name |-> "2025",
                       StartDate |-> 1, EndDate |-> 2, IsCurrent |-> TRUE],
                      [ID |-> "ay2", InstitutionID |-> "instB", Name |-> "2025",
                       StartDate |-> 1, EndDate |-> 2, IsCurrent |-> TRUE]}

SectionInstitution(sid) ==
    LET sec == CHOOSE s \in SectionRows : s.ID = sid
        cls == CHOOSE c \in ClassRows : c.ID = sec.ClassID
    IN cls.InstitutionID

TeacherInstitution(tid) == (CHOOSE t \in TeacherRows : t.ID = tid).InstitutionID

(***************************************************************************)
(* HH:MM strings as sequences of character ranks ('0'..'9' < ':')          *)
(***************************************************************************)
Colon == 10
T0900 == <<0, 9, Colon, 0, 0>>
T0945 == <<0, 9, Colon, 4, 5>>
T1030 == <<1, 0, Colon, 3, 0>>
T1115 == <<1, 1, Colon, 1, 5>>

RECURSIVE StrLess(_, _)
StrLess(a, b) ==
    IF b = <<>> THEN FALSE
    ELSE IF a = <<>> THEN TRUE
    ELSE IF Head(a) # Head(b) THEN Head(a) < Head(b)
    ELSE StrLess(Tail(a), Tail(b))

StrLeq(a, b) == a = b \/ StrLess(a, b)

Days == {"MONDAY"}
StartTimes == {T0900, T0945}
EndTimes == {T0945, T1030}
Rooms == {"", "101"}

(***************************************************************************)
(* TimetableRepository                                                     *)
(***************************************************************************)
\* the three-clause time condition of the WHERE clause: row is a stored
\* entry, startTime/endTime are the candidate's
TimeClause(row, startTime, endTime) ==
    \/ (StrLeq(row.StartTime, startTime) /\ StrLess(startTime, row.EndTime))
    \/ (StrLess(row.StartTime, endTime) /\ StrLeq(endTime, row.EndTime))
    \/ (StrLeq(startTime, row.StartTime) /\ StrLeq(row.EndTime, endTime))

\* variant that leaves out the section query
CheckConflictNoSection(db, tt, excludeID) ==
    LET others == {row \in db : excludeID = NoID \/ row.ID # excludeID}
        teacherCount == Cardinality({row \in others :
                            /\ row.TeacherID = tt.TeacherID
                            /\ row.DayOfWeek = tt.DayOfWeek
                            /\ row.IsActive
                            /\ TimeClause(row, tt.StartTime, tt.EndTime)})
        roomCount == Cardinality({row \in others :
                            /\ row.RoomNumber = tt.RoomNumber
                            /\ row.DayOfWeek = tt.DayOfWeek
                            /\ row.IsActive
                            /\ TimeClause(row, tt.StartTime, tt.EndTime)})
    IN IF teacherCount > 0 THEN TRUE
       ELSE IF tt.RoomNumber # "" THEN roomCount > 0
       ELSE FALSE

CheckConflict(db, tt, excludeID) ==
    LET others == {row \in db : excludeID = NoID \/ row.ID # excludeID}
        teacherCount == Cardinality({row \in others :
                            /\ row.TeacherID = tt.TeacherID
                            /\ row.DayOfWeek = tt.DayOfWeek
                            /\ row.IsActive
                            /\ TimeClause(row, tt.StartTime, tt.EndTime)})
        sectionCount == Cardinality({row \in others :
                            /\ row.SectionID = tt.SectionID
                            /\ row.DayOfWeek = tt.DayOfWeek
                            /\ row.IsActive
                            /\ TimeClause(row, tt.StartTime, tt.EndTime)})
        roomCount == Cardinality({row \in others :
                            /\ row.RoomNumber = tt.RoomNumber
                            /\ row.DayOfWeek = tt.DayOfWeek
                            /\ row.IsActive
                            /\ TimeClause(row, tt.StartTime, tt.EndTime)})
    IN IF teacherCount > 0 THEN TRUE
       ELSE IF sectionCount > 0 THEN TRUE
       ELSE IF tt.RoomNumber # "" THEN roomCount > 0
       ELSE FALSE

FindByIDWithInstitution(db, id, institutionID) ==
    {row \in db : row.ID = id /\ row.InstitutionID = institutionID}

\* ClassRepository / SubjectRepository lookups are tenant scoped,
\* SectionRepository.FindByID and TeacherRepository.FindByID are not
ClassFound(id, institutionID) ==
    \E c \in ClassRows : c.ID = id /\ c.InstitutionID = institutionID
SubjectFound(id, institutionID) ==
    \E s \in SubjectRows : s.ID = id /\ s.InstitutionID = institutionID
AcademicYearFound(ays, id, institutionID) ==
    \E y \in ays : y.ID = id /\ y.InstitutionID = institutionID
SectionFindByID(id) == \E s \in SectionRows : s.ID = id
TeacherFindByID(id) == \E t \in TeacherRows : t.ID = id

(***************************************************************************)
(* TimetableService.Create                                                 *)
(***************************************************************************)
ErrConflict == "scheduling conflict detected"

NewTimetable(req, institutionID, id) ==
    [ID |-> id,
     InstitutionID |-> institutionID,
     AcademicYearID |-> req.AcademicYearID,
     ClassID |-> req.ClassID,
     SectionID |-> req.SectionID,
     SubjectID |-> req.SubjectID,
     TeacherID |-> req.TeacherID,
     DayOfWeek |-> req.DayOfWeek,
     StartTime |-> req.StartTime,
     EndTime |-> req.EndTime,
     RoomNumber |-> req.RoomNumber,
     IsActive |-> TRUE]

\* "Verify all entities exist": the first lookup that misses names the error
CreateLookups(ays, req, institutionID) ==
    IF ~AcademicYearFound(ays, req.AcademicYearID, institutionID) THEN "academic year not found"
    ELSE IF ~ClassFound(req.ClassID, institutionID) THEN "class not found"
    ELSE IF ~SectionFindByID(req.SectionID) THEN "section not found"
    ELSE IF ~SubjectFound(req.SubjectID, institutionID) THEN "subject not found"
    ELSE IF ~TeacherFindByID(req.TeacherID) THEN "teacher not found"
    ELSE "ok"

\* the result of the lookups and of CheckConflict, before any write
CreateOutcome(db, ays, req, institutionID) ==
    IF CreateLookups(ays, req, institutionID) # "ok" THEN CreateLookups(ays, req, institutionID)
    ELSE IF CheckConflict(db, NewTimetable(req, institutionID, NoID), NoID) THEN ErrConflict
    ELSE "ok"

Create(req, institutionID) ==
    LET res == CreateOutcome(timetables, academicYears, req, institutionID)
    IN /\ res = "ok" => nextTTId <= MaxTT
       /\ ttResult' = res
       /\ IF res = "ok"
          THEN /\ timetables' = timetables \cup {NewTimetable(req, institutionID, nextTTId)}
               /\ nextTTId' = nextTTId + 1
          ELSE UNCHANGED <<timetables, nextTTId>>
       /\ UNCHANGED <<inflight, ayVars, probe, authVars, mgmtVars, extVars>>

(***************************************************************************)
(* TimetableService.Update                                                 *)
(***************************************************************************)
\* a field of UpdateTimetableRequest left out of the JSON body is "" (the
\* empty string, <<>> for the two times); is_active is a *bool: {} is nil,
\* {b} points to b
EmptyUpdate ==
    [AcademicYearID |-> "", ClassID |-> "", SectionID |-> "", SubjectID |-> "",
     TeacherID |-> "", DayOfWeek |-> "", StartTime |-> <<>>, EndTime |-> <<>>,
     RoomNumber |-> "", IsActive |-> {}]

ApplyUpdate(tt, req) ==
    [tt EXCEPT
        !.AcademicYearID = IF req.AcademicYearID # "" THEN req.AcademicYearID ELSE @,
        !.ClassID = IF req.ClassID # "" THEN req.ClassID ELSE @,
        !.SectionID = IF req.SectionID # "" THEN req.SectionID ELSE @,
        !.SubjectID = IF req.SubjectID # "" THEN req.SubjectID ELSE @,
        !.TeacherID = IF req.TeacherID # "" THEN req.TeacherID ELSE @,
        !.DayOfWeek = IF req.DayOfWeek # "" THEN req.DayOfWeek ELSE @,
        !.StartTime = IF req.StartTime # <<>> THEN req.StartTime ELSE @,
        !.EndTime = IF req.EndTime # <<>> THEN req.EndTime ELSE @,
        !.RoomNumber = IF req.RoomNumber # "" THEN req.RoomNumber ELSE @,
        !.IsActive = IF req.IsActive # {} THEN (CHOOSE b \in req.IsActive : TRUE) ELSE @]

UpdateLookups(db, ays, id, req, institutionID) ==
    IF FindByIDWithInstitution(db, id, institutionID) = {} THEN "not found"
    ELSE IF req.AcademicYearID # "" /\ ~AcademicYearFound(ays, req.AcademicYearID, institutionID)
        THEN "academic year not found"
    ELSE IF req.ClassID # "" /\ ~ClassFound(req.ClassID, institutionID) THEN "class not found"
    ELSE IF req.SectionID # "" /\ ~SectionFindByID(req.SectionID) THEN "section not found"
    ELSE IF req.SubjectID # "" /\ ~SubjectFound(req.SubjectID, institutionID) THEN "subject not found"
    ELSE IF req.TeacherID # "" /\ ~TeacherFindByID(req.TeacherID) THEN "teacher not found"
    ELSE "ok"

\* the row Update is about to save: the stored row with the request applied
Updated(db, id, req, institutionID) ==
    ApplyUpdate(CHOOSE row \in FindByIDWithInstitution(db, id, institutionID) : TRUE, req)

\* variant that runs CheckConflict only when the request moves the entry,
\* not when it only sets is_active
UpdateOutcomeSkipsToggle(db, ays, id, req, institutionID) ==
    IF UpdateLookups(db, ays, id, req, institutionID) # "ok"
    THEN UpdateLookups(db, ays, id, req, institutionID)
    ELSE IF /\ [req EXCEPT !.IsActive = {}] # EmptyUpdate
            /\ CheckConflict(db, Updated(db, id, req, institutionID), id) THEN ErrConflict
    ELSE "ok"

UpdateOutcome(db, ays, id, req, institutionID) ==
    IF UpdateLookups(db, ays, id, req, institutionID) # "ok"
    THEN UpdateLookups(db, ays, id, req, institutionID)
    ELSE IF CheckConflict(db, Updated(db, id, req, institutionID), id) THEN ErrConflict
    ELSE "ok"

\* TimetableRepository.Update: gorm Save writes every column of the row
Save(db, tt) == {row \in db : row.ID # tt.ID} \cup {tt}

Update(id, req, institutionID) ==
    LET res == UpdateOutcome(timetables, academicYears, id, req, institutionID)
    IN /\ ttResult' = res
       /\ IF res = "ok"
          THEN timetables' = Save(timetables, Updated(timetables, id, req, institutionID))
          ELSE UNCHANGED timetables
       /\ UNCHANGED <<nextTTId, inflight, ayVars, probe, authVars, mgmtVars, extVars>>

(***************************************************************************)
(* TimetableService.Delete                                                 *)
(***************************************************************************)
Delete(id, institutionID) ==
    /\ IF FindByIDWithInstitution(timetables, id, institutionID) = {}
       THEN /\ ttResult' = "not found"
            /\ UNCHANGED timetables
       ELSE /\ ttResult' = "ok"
            /\ timetables' = {row \in timetables : row.ID # id}
    /\ UNCHANGED <<nextTTId, inflight, ayVars, probe, authVars, mgmtVars, extVars>>

(***************************************************************************)
(* Requests                                                                *)
(***************************************************************************)
OwnAcademicYear(institutionID) == IF institutionID = "instA" THEN "ay1" ELSE "ay2"
OwnClass(institutionID) == IF institutionID = "instA" THEN "classA" ELSE "classB"
OwnSubject(institutionID) == IF institutionID = "instA" THEN "subjA" ELSE "subjB"
Other(institutionID) == IF institutionID = "instA" THEN "instB" ELSE "instA"
TeacherOf(institutionID) == IF institutionID = "instA" THEN "teachA" ELSE "teachB"

CreateRequest(ay, class, section, subject, teacher, day, startTime, endTime, room) ==
    [AcademicYearID |-> ay, ClassID |-> class, SectionID |-> section,
     SubjectID |-> subject, TeacherID |-> teacher, DayOfWeek |-> day,
     StartTime |-> startTime, EndTime |-> endTime, RoomNumber |-> room]

\* requests whose tenant-scoped references resolve.  instA's requests range
\* over the sections and teachers of both tenants, instB books its own
\* section and teacher in room 101 or in no room
GoodCreateRequests(inst) ==
    IF inst = "instA"
    THEN {CreateRequest(OwnAcademicYear(inst), OwnClass(inst), sec.ID, OwnSubject(inst),
                        t.ID, d, s, e, r) :
            sec \in SectionRows, t \in TeacherRows, d \in Days,
            s \in StartTimes, e \in EndTimes, r \in Rooms}
    ELSE {CreateRequest(OwnAcademicYear(inst), OwnClass(inst), "secB", OwnSubject(inst),
                        "teachB", "MONDAY", T0900, T0945, r) : r \in Rooms}

\* requests with one reference that does not resolve
BadCreateRequests(inst) ==
    LET ok == CreateRequest(OwnAcademicYear(inst), OwnClass(inst), "secA", OwnSubject(inst),
                            "teachA", "MONDAY", T0900, T0945, "")
    IN {[ok EXCEPT !.AcademicYearID = OwnAcademicYear(Other(inst))],
        [ok EXCEPT !.ClassID = OwnClass(Other(inst))],
        [ok EXCEPT !.SubjectID = OwnSubject(Other(inst))],
        [ok EXCEPT !.SectionID = "secX"],
        [ok EXCEPT !.TeacherID = "teachX"]}

CreateRequests(inst) == GoodCreateRequests(inst) \cup BadCreateRequests(inst)

\* update bodies that set one field (or none); instB only toggles is_active
UpdateRequests(inst) ==
    {EmptyUpdate}
    \cup {[EmptyUpdate EXCEPT !.IsActive = {b}] : b \in BOOLEAN}
    \cup (IF inst # "instA" THEN {} ELSE
          {[EmptyUpdate EXCEPT !.AcademicYearID = y] : y \in {"ay1", "ay2"}}
          \cup {[EmptyUpdate EXCEPT !.ClassID = c.ID] : c \in ClassRows}
          \cup {[EmptyUpdate EXCEPT !.SubjectID = sb.ID] : sb \in SubjectRows}
          \cup {[EmptyUpdate EXCEPT !.SectionID = sc] : sc \in {"secA", "secB", "secX"}}
          \cup {[EmptyUpdate EXCEPT !.TeacherID = t] : t \in {"teachA", "teachB", "teachX"}}
          \cup {[EmptyUpdate EXCEPT !.DayOfWeek = d] : d \in Days}
          \cup {[EmptyUpdate EXCEPT !.StartTime = st] : st \in StartTimes}
          \cup {[EmptyUpdate EXCEPT !.EndTime = e] : e \in EndTimes}
          \cup {[EmptyUpdate EXCEPT !.RoomNumber = r] : r \in Rooms \ {""}})

TTIds == 1..MaxTT

NoAYResult == [op |-> "none", res |-> "none", id |-> "", inst |-> "", setCurrent |-> FALSE,
               wasCurrent |-> {}]
\* JWT claims that decide how a token is treated; NoToken is the empty string
NoToken == [kind |-> "none", iss |-> "", sub |-> "", jti |-> 0]
UserIds == {"u1", "u2"}
Passwords == {"pw1", "pw2"}
HashPassword(pw) == <<"bcrypt", pw>>
CheckPassword(pw, hash) == hash = HashPassword(pw)
SeedUsers ==
    [u \in UserIds |-> [PasswordHash |-> HashPassword("pw1"), IsActive |-> TRUE,
                        RefreshToken |-> NoToken, ResetToken |-> NoToken]]
NoAuthResult == [op |-> "none", res |-> "none", user |-> "", token |-> NoToken]

NoProbe == [rowStart |-> <<>>, rowEnd |-> <<>>, startTime |-> <<>>, endTime |-> <<>>,
            done |-> FALSE, conflict |-> FALSE]

(***************************************************************************)
(* Requests served one at a time                                           *)
(***************************************************************************)
Workers == {1, 2}
Idle == [op |-> "idle"]

(***************************************************************************)
(* Institutions, roles and the seeded users of the user-management model   *)
(***************************************************************************)
RoleSuperAdmin == "SUPER_ADMIN"
RoleAdmin == "ADMIN"
RoleTeacher == "TEACHER"
RoleStudent == "STUDENT"
RoleParent == "PARENT"
RoleAccountant == "ACCOUNTANT"

\* table institutions: instC exists but is not active, every other id is unknown
InstitutionRows == {[ID |-> "instA", IsActive |-> TRUE],
                    [ID |-> "instB", IsActive |-> TRUE],
                    [ID |-> "instC", IsActive |-> FALSE]}

\* strings uuid.Parse accepts; "instX" is a well-formed id of no institution
UUIDs == {"instA", "instB", "instC", "instX"}
ParseUUID(str) == str \in UUIDs

\* a nil *uuid.UUID in user_profiles.institution_id is the empty string
SeedUserRows == {[ID |-> 1, Email |-> "sa@campus", Phone |-> "", Role |-> RoleSuperAdmin],
                 [ID |-> 2, Email |-> "admin@a", Phone |-> "555-1", Role |-> RoleAdmin],
                 [ID |-> 3, Email |-> "teacher@b", Phone |-> "555-2", Role |-> RoleTeacher]}
SeedUserProfiles == {[UserID |-> 1, InstitutionID |-> ""],
                     [UserID |-> 2, InstitutionID |-> "instA"],
                     [UserID |-> 3, InstitutionID |-> "instB"]}
SeedRoleRows == {[UserID |-> 3, Role |-> RoleTeacher, InstitutionID |-> "instB"]}

NoCtx == [user_id |-> 0, user_role |-> "", token_institution |-> "", header |-> "",
          status |-> "none", institution_id |-> ""]
NoUMResult == [op |-> "none", res |-> "none", role |-> "", institution |-> "", id |-> 0,
               target_institution |-> "", changed |-> FALSE]
NoLinkResult == [op |-> "none", res |-> "none", parent |-> 0, student |-> 0,
                 linked |-> FALSE, rows |-> 0]
NoSecResult == [op |-> "none", res |-> "none"]

InitTenant ==
    /\ redisUp = TRUE
    /\ cache = {}
    /\ ctx = NoCtx

InitUsers ==
    /\ userRows = SeedUserRows
    /\ userProfiles = SeedUserProfiles
    /\ roleRows = SeedRoleRows
    /\ nextUserId = 4
    /\ umResult = NoUMResult

InitLinks ==
    /\ relations = {}
    /\ nextRelId = 1
    /\ linkResult = NoLinkResult

\* sections A and B of classA as the seeder leaves them, section_count 2;
\* classB has lost its sections again
SeedSections == {[ID |-> 1, ClassID |-> "classA", Name |-> "A"],
                 [ID |-> 2, ClassID |-> "classA", Name |-> "B"]}

InitSections ==
    /\ sections = SeedSections
    /\ nextSectionId = 3
    /\ classSectionCount = [c \in {cl.ID : cl \in ClassRows} |->
                               Cardinality({sec \in SeedSections : sec.ClassID = c})]
    /\ secInflight = [w \in Workers |-> Idle]
    /\ secResult = NoSecResult

InitMgmt ==
    /\ InitTenant
    /\ InitUsers
    /\ InitLinks
    /\ InitSections

NoReadResult == [op |-> "none", institution |-> "", found |-> FALSE, owners |-> {}]

NoSecAdminResult == [op |-> "none", res |-> "none", institution |-> "", owner |-> ""]

NoPermResult == [op |-> "none", role |-> "", permissions |-> <<>>, passed |-> FALSE]

NoBearerCtx == [status |-> "none", kind |-> "none", user_id |-> "", user_role |-> "",
                institution_id |-> ""]

InitExt ==
    /\ readResult = NoReadResult
    /\ subjects = {}
    /\ nextSubjectId = 1
    /\ subjResult = "none"
    /\ secAdminResult = NoSecAdminResult
    /\ permResult = NoPermResult
    /\ bearerCtx = NoBearerCtx
    /\ ayInflight = [w \in Workers |-> Idle]
    /\ rateKey = [count |-> 0, ttl |-> FALSE]
    /\ rateInflight = [w \in Workers |-> Idle]
    /\ ratePassed = 0
    /\ rateResult = "none"

InitTimetables ==
    /\ timetables = {}
    /\ nextTTId = 1
    /\ ttResult = "none"
    /\ inflight = [w \in Workers |-> Idle]

InitAcademicYears ==
    /\ academicYears = SeedAcademicYears
    /\ nextAYId = 3
    /\ ayResult = NoAYResult

InitAuth ==
    /\ users = SeedUsers
    /\ issued = {}
    /\ expired = {}
    /\ nextJti = 1
    /\ authResult = NoAuthResult

Init ==
    /\ InitTimetables
    /\ InitAcademicYears
    /\ probe = NoProbe
    /\ InitAuth
    /\ InitExt
    /\ InitMgmt

Next ==
    \/ \E inst \in Tenants : \E req \in CreateRequests(inst) : Create(req, inst)
    \/ \E inst \in Tenants, id \in TTIds : \E req \in UpdateRequests(inst) : Update(id, req, inst)
    \/ \E inst \in Tenants, id \in TTIds : Delete(id, inst)

Spec == Init /\ [][Next]_vars

(***************************************************************************)
(* Requests served concurrently: each worker runs one Create or Update,    *)
(* whose lookups and CheckConflict (the Begin step) and whose write (the   *)
(* Finish step) are separate statements against the database.              *)
(***************************************************************************)
PendingCreates == Cardinality({w \in Workers : inflight[w].op = "create"})

BeginCreate(w, req, institutionID) ==
    LET res == CreateOutcome(timetables, academicYears, req, institutionID)
    IN /\ inflight[w].op = "idle"
       /\ res = "ok" => nextTTId + PendingCreates <= MaxTT
       /\ IF res = "ok"
          THEN /\ inflight' = [inflight EXCEPT
                      ![w] = [op |-> "create", tt |-> NewTimetable(req, institutionID, NoID)]]
               /\ UNCHANGED ttResult
          ELSE /\ ttResult' = res
               /\ UNCHANGED inflight
       /\ UNCHANGED <<timetables, nextTTId, ayVars, probe, authVars, mgmtVars, extVars>>

\* variant in which check and insert are one atomic statement: the insert
\* happens only if CheckConflict still finds nothing
FinishCreateAtomic(w) ==
    /\ inflight[w].op = "create"
    /\ IF CheckConflict(timetables, inflight[w].tt, NoID)
       THEN /\ ttResult' = ErrConflict
            /\ UNCHANGED <<timetables, nextTTId>>
       ELSE /\ timetables' = timetables \cup {[inflight[w].tt EXCEPT !.ID = nextTTId]}
            /\ nextTTId' = nextTTId + 1
            /\ ttResult' = "ok"
    /\ inflight' = [inflight EXCEPT ![w] = Idle]
    /\ UNCHANGED <<ayVars, probe, authVars, mgmtVars, extVars>>

\* s.ttRepo.Create(tt): the insert is not conditional on anything
FinishCreate(w) ==
    /\ inflight[w].op = "create"
    /\ timetables' = timetables \cup {[inflight[w].tt EXCEPT !.ID = nextTTId]}
    /\ nextTTId' = nextTTId + 1
    /\ ttResult' = "ok"
    /\ inflight' = [inflight EXCEPT ![w] = Idle]
    /\ UNCHANGED <<ayVars, probe, authVars, mgmtVars, extVars>>

BeginUpdate(w, id, req, institutionID) ==
    LET res == UpdateOutcome(timetables, academicYears, id, req, institutionID)
    IN /\ inflight[w].op = "idle"
       /\ IF res = "ok"
          THEN /\ inflight' = [inflight EXCEPT
                      ![w] = [op |-> "update",
                              tt |-> Updated(timetables, id, req, institutionID)]]
               /\ UNCHANGED ttResult
          ELSE /\ ttResult' = res
               /\ UNCHANGED inflight
       /\ UNCHANGED <<timetables, nextTTId, ayVars, probe, authVars, mgmtVars, extVars>>

\* s.ttRepo.Update(tt)
FinishUpdate(w) ==
    /\ inflight[w].op = "update"
    /\ timetables' = Save(timetables, inflight[w].tt)
    /\ ttResult' = "ok"
    /\ inflight' = [inflight EXCEPT ![w] = Idle]
    /\ UNCHANGED <<nextTTId, ayVars, probe, authVars, mgmtVars, extVars>>

\* the requests the two workers issue
ConcurrentCreateRequests(inst) ==
    {req \in GoodCreateRequests(inst) : req.TeacherID = TeacherOf(inst) /\ req.RoomNumber = "101"}

ConcurrentUpdateRequests ==
    {[EmptyUpdate EXCEPT !.IsActive = {b}] : b \in BOOLEAN}
    \cup {[EmptyUpdate EXCEPT !.StartTime = st] : st \in StartTimes}

NextConcurrent ==
    \/ \E w \in Workers, inst \in Tenants :
          \E req \in ConcurrentCreateRequests(inst) : BeginCreate(w, req, inst)
    \/ \E w \in Workers : FinishCreate(w)
    \/ \E w \in Workers, inst \in Tenants, id \in TTIds :
          \E req \in ConcurrentUpdateRequests : BeginUpdate(w, id, req, inst)
    \/ \E w \in Workers : FinishUpdate(w)

SpecConcurrent == Init /\ [][NextConcurrent]_vars

(***************************************************************************)
(* Properties of the scheduling engine                                     *)
(***************************************************************************)
\* half-open overlap of [a.StartTime, a.EndTime) and [b.StartTime, b.EndTime)
HalfOpenOverlap(a, b) ==
    StrLess(a.StartTime, b.EndTime) /\ StrLess(b.StartTime, a.EndTime)

\* stored row and candidate tt book the same teacher, section or (non-empty)
\* room on the same day
SharesResource(row, tt) ==
    /\ row.DayOfWeek = tt.DayOfWeek
    /\ \/ row.TeacherID = tt.TeacherID
       \/ row.SectionID = tt.SectionID
       \/ (tt.RoomNumber # "" /\ row.RoomNumber = tt.RoomNumber)

Clashes(db, tt, excludeID) ==
    \E row \in db : /\ row.ID # excludeID
                    /\ row.IsActive
                    /\ SharesResource(row, tt)
                    /\ HalfOpenOverlap(row, tt)

\* C1: a Create or Update whose candidate (built once its references have
\* resolved) shares teacher/day, section/day or non-empty room/day with
\* another stored active entry and overlaps it by the half-open rule returns
\* the scheduling-conflict error and leaves the stored entries as they were.
C1_ConflictAbortsBeforeWrite ==
    /\ [](/\ \A inst \in Tenants : \A req \in CreateRequests(inst) :
              (/\ CreateLookups(academicYears, req, inst) = "ok"
               /\ Clashes(timetables, NewTimetable(req, inst, NoID), NoID))
              => CreateOutcome(timetables, academicYears, req, inst) = ErrConflict
          /\ \A inst \in Tenants, id \in TTIds : \A req \in UpdateRequests(inst) :
              (/\ UpdateLookups(timetables, academicYears, id, req, inst) = "ok"
               /\ Clashes(timetables, Updated(timetables, id, req, inst), id))
              => UpdateOutcome(timetables, academicYears, id, req, inst) = ErrConflict)
    /\ [][ttResult' = ErrConflict => timetables' = timetables]_vars

\* a call was answered with the conflict error while two entries are stored
C1_Witness ==
    /\ ttResult = ErrConflict
    /\ Cardinality(timetables) = 2

C3_WriteFollowsStaleCheck ==
    [][\A w \in Workers :
          (inflight[w].op # "idle" /\ inflight'[w].op = "idle")
          => \E row \in timetables' :
                [row EXCEPT !.ID = NoID] = [inflight[w].tt EXCEPT !.ID = NoID]]_vars

\* both requests are done and two overlapping active entries are stored
C3_Witness ==
    /\ \A w \in Workers : inflight[w].op = "idle"
    /\ \E a \in timetables : \E b \in timetables :
          /\ a.ID # b.ID /\ a.IsActive /\ b.IsActive
          /\ SharesResource(a, b) /\ HalfOpenOverlap(a, b)

OwnRows(db, institutionID) == {row \in db : row.InstitutionID = institutionID}

\* C4: the outcome of a Create or Update in a tenant is the same on the
\* store and on the store without the other tenants' entries.
C4_ChecksScopedToTenant ==
    /\ \A inst \in Tenants : \A req \in CreateRequests(inst) :
          CreateOutcome(timetables, academicYears, req, inst)
            = CreateOutcome(OwnRows(timetables, inst), academicYears, req, inst)
    /\ \A inst \in Tenants, id \in TTIds : \A req \in UpdateRequests(inst) :
          UpdateOutcome(timetables, academicYears, id, req, inst)
            = UpdateOutcome(OwnRows(timetables, inst), academicYears, id, req, inst)

\* C5: every stored timetable entry refers to an academic year, a class, a
\* section, a subject and a teacher of its own institution, so a Create or
\* Update naming a section or a teacher of another tenant writes nothing.
C5_ReferencesBelongToTenant ==
    \A row \in timetables :
        /\ AcademicYearFound(academicYears, row.AcademicYearID, row.InstitutionID)
        /\ ClassFound(row.ClassID, row.InstitutionID)
        /\ SubjectFound(row.SubjectID, row.InstitutionID)
        /\ SectionInstitution(row.SectionID) = row.InstitutionID
        /\ TeacherInstitution(row.TeacherID) = row.InstitutionID

(***************************************************************************)
(* AcademicYearRepository                                                  *)
(***************************************************************************)
AYIds == <<"ay1", "ay2", "ay3", "ay4", "ay5", "ay6">>

AYFindByIDWithInstitution(ays, id, institutionID) ==
    {y \in ays : y.ID = id /\ y.InstitutionID = institutionID}

NameExists(ays, name, institutionID, excludeID) ==
    Cardinality({y \in ays : /\ y.Name = name
                             /\ y.InstitutionID = institutionID
                             /\ (excludeID = "" \/ y.ID # excludeID)}) > 0

\* variant that sets the target without unsetting the others
SetCurrentOnly(ays, id, institutionID) ==
    {[y EXCEPT !.IsCurrent = IF y.ID = id /\ y.InstitutionID = institutionID THEN TRUE ELSE @] :
        y \in ays}

\* one transaction: unset every current year of the institution, then set
\* the year with this id and institution
SetCurrent(ays, id, institutionID) ==
    LET unset == {[y EXCEPT !.IsCurrent =
                       IF y.InstitutionID = institutionID /\ y.IsCurrent THEN FALSE ELSE @] :
                    y \in ays}
    IN {[y EXCEPT !.IsCurrent = IF y.ID = id /\ y.InstitutionID = institutionID THEN TRUE ELSE @] :
          y \in unset}

CurrentIds(ays, institutionID) ==
    {y.ID : y \in {z \in ays : z.InstitutionID = institutionID /\ z.IsCurrent}}

(***************************************************************************)
(* AcademicYearService                                                     *)
(***************************************************************************)
\* variant that inserts the row and leaves the other years alone
CreatedRowsKeepsCurrent(ays, ay, institutionID) == ays \cup {ay}

\* the table after repo.Create and, for is_current = true, repo.SetCurrent
CreatedRows(ays, ay, institutionID) ==
    IF ay.IsCurrent
    THEN SetCurrent(ays \cup {ay}, ay.ID, institutionID)
    ELSE ays \cup {ay}

AYCreate(req, institutionID) ==
    LET id == AYIds[nextAYId]
        ay == [ID |-> id, InstitutionID |-> institutionID, Name |-> req.Name,
               StartDate |-> req.StartDate, EndDate |-> req.EndDate,
               IsCurrent |-> req.IsCurrent]
        res == IF req.EndDate <= req.StartDate THEN "end date must be after start date"
               ELSE IF NameExists(academicYears, req.Name, institutionID, "")
                    THEN "academic year with this name already exists"
               ELSE "ok"
    IN /\ nextAYId <= MaxAY
       /\ ayResult' = [op |-> "create", res |-> res, id |-> id, inst |-> institutionID,
                       setCurrent |-> req.IsCurrent,
                       wasCurrent |-> CurrentIds(academicYears, institutionID)]
       /\ IF res = "ok"
          THEN /\ academicYears' = CreatedRows(academicYears, ay, institutionID)
               /\ nextAYId' = nextAYId + 1
          ELSE UNCHANGED <<academicYears, nextAYId>>
       /\ UNCHANGED <<ttVars, probe, authVars, mgmtVars, extVars>>

\* fields of UpdateAcademicYearRequest: Name "" and the pointers {} are
\* "not provided"
AYApplyUpdate(ay, req) ==
    [ay EXCEPT
        !.Name = IF req.Name # "" /\ req.Name # ay.Name THEN req.Name ELSE @,
        !.StartDate = IF req.StartDate # {} THEN (CHOOSE d \in req.StartDate : TRUE) ELSE @,
        !.EndDate = IF req.EndDate # {} THEN (CHOOSE d \in req.EndDate : TRUE) ELSE @]

AYUpdate(id, req, institutionID) ==
    LET found == AYFindByIDWithInstitution(academicYears, id, institutionID)
        old == CHOOSE y \in found : TRUE
        ay == AYApplyUpdate(old, req)
        res == IF found = {} THEN "not found"
               ELSE IF /\ req.Name # "" /\ req.Name # old.Name
                       /\ NameExists(academicYears, req.Name, institutionID, id)
                    THEN "academic year with this name already exists"
               ELSE IF ay.EndDate <= ay.StartDate THEN "end date must be after start date"
               ELSE "ok"
        saved == {y \in academicYears : y.ID # id} \cup {ay}
    IN /\ ayResult' = [op |-> "update", res |-> res, id |-> id, inst |-> institutionID,
                       setCurrent |-> (req.IsCurrent = {TRUE}),
                       wasCurrent |-> CurrentIds(academicYears, institutionID)]
       /\ IF res = "ok"
          THEN academicYears' =
                  IF req.IsCurrent = {TRUE}
                  THEN SetCurrent(saved, id, institutionID)
                  ELSE saved
          ELSE UNCHANGED academicYears
       /\ UNCHANGED <<nextAYId, ttVars, probe, authVars, mgmtVars, extVars>>

AYDelete(id, institutionID) ==
    LET found == AYFindByIDWithInstitution(academicYears, id, institutionID)
    IN /\ ayResult' = [op |-> "delete", res |-> IF found = {} THEN "not found" ELSE "ok",
                       id |-> id, inst |-> institutionID, setCurrent |-> FALSE,
                       wasCurrent |-> CurrentIds(academicYears, institutionID)]
       /\ academicYears' = IF found = {} THEN academicYears
                           ELSE {y \in academicYears : y.ID # id}
       /\ UNCHANGED <<nextAYId, ttVars, probe, authVars, mgmtVars, extVars>>

Activate(id, institutionID) ==
    LET found == AYFindByIDWithInstitution(academicYears, id, institutionID)
    IN /\ ayResult' = [op |-> "activate", res |-> IF found = {} THEN "not found" ELSE "ok",
                       id |-> id, inst |-> institutionID, setCurrent |-> TRUE,
                       wasCurrent |-> CurrentIds(academicYears, institutionID)]
       /\ academicYears' = IF found = {} THEN academicYears
                           ELSE SetCurrent(academicYears, id, institutionID)
       /\ UNCHANGED <<nextAYId, ttVars, probe, authVars, mgmtVars, extVars>>

AYNames == {"2025-2026", "2026-2027"}

AYCreateRequests ==
    {[Name |-> n, StartDate |-> d[1], EndDate |-> d[2], IsCurrent |-> c] :
        n \in AYNames, d \in {<<1, 2>>, <<2, 2>>}, c \in BOOLEAN}

AYUpdateRequests ==
    {[Name |-> n, StartDate |-> sd, EndDate |-> {}, IsCurrent |-> c] :
        n \in AYNames \cup {""}, sd \in {{}, {2}}, c \in {{}, {TRUE}, {FALSE}}}

AYInit ==
    /\ InitTimetables
    /\ academicYears = {}
    /\ nextAYId = 1
    /\ ayResult = NoAYResult
    /\ probe = NoProbe
    /\ InitAuth
    /\ InitExt
    /\ InitMgmt

AYNext ==
    \/ \E inst \in Tenants : \E req \in AYCreateRequests : AYCreate(req, inst)
    \/ \E inst \in Tenants, n \in 1..MaxAY : \E req \in AYUpdateRequests :
          AYUpdate(AYIds[n], req, inst)
    \/ \E inst \in Tenants, n \in 1..MaxAY : AYDelete(AYIds[n], inst)
    \/ \E inst \in Tenants, n \in 1..MaxAY : Activate(AYIds[n], inst)

SpecAcademicYear == AYInit /\ [][AYNext]_vars

C8_CurrentMovesToTarget ==
    (/\ ayResult.res = "ok"
     /\ ayResult.op \in {"create", "activate"}
     /\ ayResult.setCurrent
     /\ ayResult.wasCurrent # {})
    => /\ \E y \in academicYears : y.ID = ayResult.id /\ y.IsCurrent
       /\ \A y \in academicYears :
             (y.ID \in ayResult.wasCurrent /\ y.ID # ayResult.id) => ~y.IsCurrent
       /\ CurrentIds(academicYears, ayResult.inst) = {ayResult.id}

\* a create with is_current = true has taken the flag from another year
C8_Witness ==
    /\ ayResult.res = "ok"
    /\ ayResult.op = "create"
    /\ ayResult.setCurrent
    /\ \E y \in academicYears : y.ID = ayResult.id /\ y.IsCurrent
    /\ \E y \in academicYears :
          y.ID \in ayResult.wasCurrent /\ y.ID # ayResult.id /\ ~y.IsCurrent

(***************************************************************************)
(* The time condition of CheckConflict on its own                          *)
(***************************************************************************)
\* start_time and end_time are free-form strings for the request binding;
\* the values below are zero-padded HH:MM, in every order
ProbeTimes == {T0900, T0945, T1030, T1115}

OverlapInit ==
    /\ InitTimetables
    /\ InitAcademicYears
    /\ InitAuth
    /\ InitExt
    /\ probe \in {[rowStart |-> s1, rowEnd |-> e1, startTime |-> s2, endTime |-> e2,
                   done |-> FALSE, conflict |-> FALSE] :
                     s1 \in ProbeTimes, e1 \in ProbeTimes, s2 \in ProbeTimes, e2 \in ProbeTimes}
    /\ InitMgmt

\* the WHERE clause evaluated for one stored row and one candidate
EvalTimeClause ==
    /\ ~probe.done
    /\ probe' = [probe EXCEPT
                   !.done = TRUE,
                   !.conflict = TimeClause([StartTime |-> probe.rowStart,
                                            EndTime |-> probe.rowEnd],
                                           probe.startTime, probe.endTime)]
    /\ UNCHANGED <<ttVars, ayVars, authVars, mgmtVars, extVars>>

OverlapNext == EvalTimeClause

SpecOverlap == OverlapInit /\ [][OverlapNext]_vars

\* C6: for zero-padded HH:MM values the three-clause condition reports a
\* conflict between a stored [s1,e1) and a candidate [s2,e2) exactly when
\* s1 < e2 and s2 < e1.
C6_ThreeClauseIsHalfOpen ==
    probe.done =>
        (probe.conflict <=>
            (StrLess(probe.rowStart, probe.endTime) /\ StrLess(probe.startTime, probe.rowEnd)))

(***************************************************************************)
(* JWTManager                                                              *)
(***************************************************************************)
MaxJti == 2         \* tokens ever generated

GenerateAccessToken(userID, jti) ==
    [kind |-> "access", iss |-> "campus-core", sub |-> userID, jti |-> jti]

GenerateRefreshToken(userID, jti) ==
    [kind |-> "refresh", iss |-> "campus-core", sub |-> userID, jti |-> jti]

GenerateResetToken(userID, jti) ==
    [kind |-> "reset", iss |-> "campus-core-reset", sub |-> userID, jti |-> jti]

\* a token string nobody signed
ForgedToken == [kind |-> "refresh", iss |-> "campus-core", sub |-> "u1", jti |-> MaxJti + 1]

\* signature and expiry are checked, the subject is parsed, the issuer is not
\* looked at
ValidateRefreshToken(signed, exp, tokenString) ==
    IF tokenString \notin signed THEN "invalid refresh token"
    ELSE IF tokenString \in exp THEN "refresh token expired"
    ELSE "ok"

ValidateResetToken(signed, exp, tokenString) ==
    IF tokenString \notin signed THEN "invalid reset token"
    ELSE IF tokenString \in exp THEN "reset token expired"
    ELSE IF tokenString.iss # "campus-core-reset" THEN "invalid reset token"
    ELSE "ok"

(***************************************************************************)
(* UserRepository                                                          *)
(***************************************************************************)
SaveRefreshToken(us, id, token) == [us EXCEPT ![id].RefreshToken = token]

\* variant that leaves the stored token in place
InvalidateRefreshTokenKeeps(us, id) == us

InvalidateRefreshToken(us, id) == [us EXCEPT ![id].RefreshToken = NoToken]

SaveResetToken(us, id, token) == [us EXCEPT ![id].ResetToken = token]

\* reset_token = ? AND reset_token_expiry > now; the stored expiry is the
\* token's own
FindByResetToken(us, exp, token) ==
    {u \in UserIds : us[u].ResetToken = token /\ token \notin exp}

\* variant that leaves the stored token in place
ClearResetTokenKeeps(us, id) == us

ClearResetToken(us, id) == [us EXCEPT ![id].ResetToken = NoToken]

UpdatePassword(us, id, hash) == [us EXCEPT ![id].PasswordHash = hash]

(***************************************************************************)
(* AuthService                                                             *)
(***************************************************************************)
\* email is the user id; "nobody" is an address without an account
Login(email, password) ==
    LET res == IF email \notin UserIds THEN "invalid credentials"
               ELSE IF ~users[email].IsActive THEN "account disabled"
               ELSE IF ~CheckPassword(password, users[email].PasswordHash)
                    THEN "invalid credentials"
               ELSE "ok"
        refreshToken == GenerateRefreshToken(email, nextJti)
    IN /\ res = "ok" => nextJti <= MaxJti
       /\ IF res = "ok"
          THEN /\ issued' = issued \cup {GenerateAccessToken(email, nextJti), refreshToken}
               /\ users' = SaveRefreshToken(users, email, refreshToken)
               /\ nextJti' = nextJti + 1
               /\ authResult' = [op |-> "login", res |-> res, user |-> email,
                                 token |-> refreshToken]
          ELSE /\ authResult' = [op |-> "login", res |-> res, user |-> email,
                                 token |-> NoToken]
               /\ UNCHANGED <<users, issued, nextJti>>
       /\ UNCHANGED <<expired, ttVars, ayVars, probe, mgmtVars, extVars>>

\* variant without the comparison against the stored token
RefreshTokenOutcomeNoMatch(us, signed, exp, tokenString) ==
    IF ValidateRefreshToken(signed, exp, tokenString) # "ok"
    THEN ValidateRefreshToken(signed, exp, tokenString)
    ELSE IF tokenString.sub \notin UserIds THEN "invalid credentials"
    ELSE IF ~us[tokenString.sub].IsActive THEN "account disabled"
    ELSE "ok"

\* what RefreshToken returns for this token string
RefreshTokenOutcome(us, signed, exp, tokenString) ==
    IF ValidateRefreshToken(signed, exp, tokenString) # "ok"
    THEN ValidateRefreshToken(signed, exp, tokenString)
    ELSE IF tokenString.sub \notin UserIds THEN "invalid credentials"
    ELSE IF us[tokenString.sub].RefreshToken # tokenString THEN "invalid refresh token"
    ELSE IF ~us[tokenString.sub].IsActive THEN "account disabled"
    ELSE "ok"

RefreshToken(tokenString) ==
    LET res == RefreshTokenOutcome(users, issued, expired, tokenString)
        userID == tokenString.sub
        refreshToken == GenerateRefreshToken(userID, nextJti)
    IN /\ res = "ok" => nextJti <= MaxJti
       /\ IF res = "ok"
          THEN /\ issued' = issued \cup {GenerateAccessToken(userID, nextJti), refreshToken}
               /\ users' = SaveRefreshToken(users, userID, refreshToken)
               /\ nextJti' = nextJti + 1
               /\ authResult' = [op |-> "refresh", res |-> res, user |-> userID,
                                 token |-> refreshToken]
          ELSE /\ authResult' = [op |-> "refresh", res |-> res, user |-> userID,
                                 token |-> NoToken]
               /\ UNCHANGED <<users, issued, nextJti>>
       /\ UNCHANGED <<expired, ttVars, ayVars, probe, mgmtVars, extVars>>

Logout(userID) ==
    /\ users' = InvalidateRefreshToken(users, userID)
    /\ authResult' = [op |-> "logout", res |-> "ok", user |-> userID, token |-> NoToken]
    /\ UNCHANGED <<issued, expired, nextJti, ttVars, ayVars, probe, mgmtVars, extVars>>

\* saved: whether the UPDATE of reset_token went through (the column is
\* narrower than users.refresh_token, the outcome depends on the database)
ForgotPassword(email, saved) ==
    LET resetToken == GenerateResetToken(email, nextJti)
    IN IF email \notin UserIds
       THEN /\ authResult' = [op |-> "forgot", res |-> "ok", user |-> email,
                              token |-> NoToken]
            /\ UNCHANGED <<users, issued, nextJti, expired, ttVars, ayVars, probe, mgmtVars, extVars>>
       ELSE /\ nextJti <= MaxJti
            /\ issued' = issued \cup {resetToken}
            /\ nextJti' = nextJti + 1
            /\ users' = IF saved THEN SaveResetToken(users, email, resetToken) ELSE users
            /\ authResult' = [op |-> "forgot",
                              res |-> IF saved THEN "ok" ELSE "internal server error",
                              user |-> email, token |-> resetToken]
            /\ UNCHANGED <<expired, ttVars, ayVars, probe, mgmtVars, extVars>>

ResetPasswordOutcome(us, signed, exp, token) ==
    IF ValidateResetToken(signed, exp, token) # "ok"
    THEN ValidateResetToken(signed, exp, token)
    ELSE IF FindByResetToken(us, exp, token) = {} THEN "invalid reset token"
    ELSE IF token.sub \notin FindByResetToken(us, exp, token) THEN "invalid reset token"
    ELSE "ok"

ResetPassword(token, newPassword) ==
    LET res == ResetPasswordOutcome(users, issued, expired, token)
        userID == token.sub
    IN /\ authResult' = [op |-> "reset", res |-> res, user |-> userID, token |-> NoToken]
       /\ users' = IF res = "ok"
                   THEN InvalidateRefreshToken(
                            ClearResetToken(
                                UpdatePassword(users, userID, HashPassword(newPassword)),
                                userID),
                            userID)
                   ELSE users
       /\ UNCHANGED <<issued, expired, nextJti, ttVars, ayVars, probe, mgmtVars, extVars>>

ChangePassword(userID, oldPassword, newPassword) ==
    LET res == IF ~CheckPassword(oldPassword, users[userID].PasswordHash)
               THEN "invalid credentials" ELSE "ok"
    IN /\ authResult' = [op |-> "change", res |-> res, user |-> userID, token |-> NoToken]
       /\ users' = IF res = "ok"
                   THEN UpdatePassword(users, userID, HashPassword(newPassword))
                   ELSE users
       /\ UNCHANGED <<issued, expired, nextJti, ttVars, ayVars, probe, mgmtVars, extVars>>

\* UserService.UpdateUser with is_active in the body: the row read at the
\* start is saved whole with the new status
UpdateUser(id, isActive) ==
    /\ users' = [users EXCEPT ![id] = [users[id] EXCEPT !.IsActive = isActive]]
    /\ authResult' = [op |-> "status", res |-> "ok", user |-> id, token |-> NoToken]
    /\ UNCHANGED <<issued, expired, nextJti, ttVars, ayVars, probe, mgmtVars, extVars>>

\* time passes the exp claim of a refresh or reset token (an access token is
\* never a stored value; RefreshToken rejects it expired or not)
Expire(token) ==
    /\ token \in issued \ expired
    /\ token.kind # "access"
    /\ expired' = expired \cup {token}
    /\ UNCHANGED <<users, issued, nextJti, authResult, ttVars, ayVars, probe, mgmtVars, extVars>>

\* token strings a client can send: everything signed so far, a string
\* nobody signed, and the empty string
Presentable == issued \cup {ForgedToken, NoToken}

\* the accounts whose password and status are changed through the profile
\* and user-management endpoints
ManagedUsers == {"u1"}

AuthInit ==
    /\ InitTimetables
    /\ InitAcademicYears
    /\ probe = NoProbe
    /\ InitAuth
    /\ InitExt
    /\ InitMgmt

AuthNext ==
    \/ \E email \in UserIds \cup {"nobody"}, pw \in Passwords : Login(email, pw)
    \/ \E tok \in Presentable : RefreshToken(tok)
    \/ \E u \in UserIds : Logout(u)
    \/ \E email \in UserIds \cup {"nobody"}, saved \in BOOLEAN : ForgotPassword(email, saved)
    \/ \E tok \in Presentable, pw \in Passwords : ResetPassword(tok, pw)
    \/ \E u \in ManagedUsers, old \in Passwords, new \in Passwords : ChangePassword(u, old, new)
    \/ \E u \in ManagedUsers, b \in BOOLEAN : UpdateUser(u, b)
    \/ \E tok \in issued : Expire(tok)

SpecAuth == AuthInit /\ [][AuthNext]_vars

StoredRefreshToken(us, tok) == tok.sub \in UserIds /\ us[tok.sub].RefreshToken = tok

C9_WitnessReset ==
    /\ authResult.op = "reset" /\ authResult.res = "ok"
    /\ \E tok \in issued \ expired :
          /\ tok.kind = "refresh" /\ tok.sub = authResult.user
          /\ users[tok.sub].IsActive
          /\ RefreshTokenOutcome(users, issued, expired, tok) = "invalid refresh token"

C11_ResetAndRefreshTokensDisjoint ==
    \A tok \in issued :
        /\ tok.kind = "reset" => ValidateRefreshToken(issued, expired, tok) # "ok"
        /\ tok.kind = "refresh" => ValidateResetToken(issued, expired, tok) # "ok"

(***************************************************************************)
(* Middleware chain of the protected routes: AuthMiddleware copies the     *)
(* claims of the access token into the gin context, TenantMiddleware       *)
(* resolves the active tenant from the context and the X-Institution-ID    *)
(* header, RequireRole gates a route group by role.                        *)
(***************************************************************************)
MaxUsers == 4       \* user rows ever inserted, the three seeded ones included

Headers == {"", "instA", "instB", "instC", "instX", "not-a-uuid"}

\* the institution_id claim Login puts into the access token of a user
ProfileInstitution(profiles, userID) ==
    IF \E p \in profiles : p.UserID = userID /\ p.InstitutionID # ""
    THEN (CHOOSE p \in profiles : p.UserID = userID /\ p.InstitutionID # "").InstitutionID
    ELSE ""

\* context keys after AuthMiddleware accepted the access token of user u;
\* institution_id is set only when the claim is not empty
AuthMiddleware(u, profiles) ==
    [user_id |-> u.ID, user_role |-> u.Role,
     token_institution |-> ProfileInstitution(profiles, u.ID),
     header |-> "", status |-> "next",
     institution_id |-> ProfileInstitution(profiles, u.ID)]

GetUserRole(c) == c.user_role
GetInstitutionID(c) == c.institution_id

\* SELECT count(*) FROM institutions WHERE id = ? AND is_active = true
ActiveInstitutionCount(id) ==
    Cardinality({i \in InstitutionRows : i.ID = id /\ i.IsActive})

\* step 4 of TenantMiddleware, taken only when database.RedisClient != nil:
\* the cache key is looked up, and on a miss the institutions table is asked;
\* a failed query is logged and the request goes on
ValidateExistence(institutionID, cached, dbFails) ==
    IF institutionID \in cached THEN [status |-> "next", cache |-> cached]
    ELSE IF dbFails THEN [status |-> "next", cache |-> cached]
    ELSE IF ActiveInstitutionCount(institutionID) = 0
    THEN [status |-> "ErrInstitutionNotFound", cache |-> cached]
    ELSE [status |-> "next", cache |-> cached \cup {institutionID}]

TenantMiddleware(c, headerInstitutionID, redis, cached, dbFails) ==
    IF GetInstitutionID(c) # ""
    THEN IF headerInstitutionID # "" /\ headerInstitutionID # GetInstitutionID(c)
         THEN IF GetUserRole(c) = RoleSuperAdmin
              THEN [status |-> "next", institution_id |-> headerInstitutionID,
                    cache |-> cached]
              ELSE [status |-> "ErrCrossTenantAccess",
                    institution_id |-> GetInstitutionID(c), cache |-> cached]
         ELSE [status |-> "next", institution_id |-> GetInstitutionID(c), cache |-> cached]
    ELSE IF headerInstitutionID = ""
    THEN [status |-> "next", institution_id |-> "", cache |-> cached]
    ELSE IF ~ParseUUID(headerInstitutionID)
    THEN [status |-> "ErrInvalidUUID", institution_id |-> "", cache |-> cached]
    ELSE LET v == IF redis THEN ValidateExistence(headerInstitutionID, cached, dbFails)
                  ELSE [status |-> "next", cache |-> cached]
         IN IF v.status = "next"
            THEN [status |-> "next", institution_id |-> headerInstitutionID,
                  cache |-> v.cache]
            ELSE [status |-> v.status, institution_id |-> "", cache |-> v.cache]

\* RequireRole: SUPER_ADMIN passes every gate, any other role must be listed
RequireRole(c, roles) ==
    IF GetUserRole(c) = "" THEN "ErrTokenMissing"
    ELSE IF GetUserRole(c) = RoleSuperAdmin THEN "next"
    ELSE IF GetUserRole(c) \in roles THEN "next"
    ELSE "ErrRoleNotAllowed"

RequireAdmin(c) == RequireRole(c, {RoleSuperAdmin, RoleAdmin})

\* the context a handler of the protected group sees, and the cache afterwards
Protected(u, profiles, headerInstitutionID, redis, cached, dbFails) ==
    LET c == AuthMiddleware(u, profiles)
        t == TenantMiddleware(c, headerInstitutionID, redis, cached, dbFails)
    IN [c |-> [c EXCEPT !.header = headerInstitutionID, !.status = t.status,
                        !.institution_id = t.institution_id],
        cache |-> t.cache]

\* any request of the protected group made with the access token of user uid
Request(uid, headerInstitutionID, dbFails) ==
    /\ \E u \in userRows :
          /\ u.ID = uid
          /\ LET p == Protected(u, userProfiles, headerInstitutionID, redisUp, cache, dbFails)
             IN /\ ctx' = p.c
                /\ cache' = p.cache
    /\ UNCHANGED <<redisUp, userVars, linkVars, sectionVars, coreVars, extVars>>

(***************************************************************************)
(* AuthService.Register behind POST /auth/register                         *)
(***************************************************************************)
EmailExists(rows, email) == \E u \in rows : u.Email = email
PhoneExists(rows, phone) == \E u \in rows : u.Phone = phone

\* UserRepository.CreateWithProfile: one transaction inserting the user and
\* its profile; idx_users_email rejects a second live row with the same email
CreateWithProfile(rows, profiles, user, profile) ==
    IF EmailExists(rows, user.Email)
    THEN [err |-> TRUE, rows |-> rows, profiles |-> profiles]
    ELSE [err |-> FALSE, rows |-> rows \cup {user},
          profiles |-> profiles \cup {[profile EXCEPT !.UserID = user.ID]}]

\* AuthService.Register: the role and the institution of the request are
\* stored as they are given
Register(rows, profiles, id, req) ==
    IF EmailExists(rows, req.Email)
    THEN [res |-> "ErrEmailAlreadyExists", rows |-> rows, profiles |-> profiles]
    ELSE IF req.Phone # "" /\ PhoneExists(rows, req.Phone)
    THEN [res |-> "ErrPhoneAlreadyExists", rows |-> rows, profiles |-> profiles]
    ELSE IF req.InstitutionID # "" /\ ~ParseUUID(req.InstitutionID)
    THEN [res |-> "ErrInvalidUUID", rows |-> rows, profiles |-> profiles]
    ELSE LET user == [ID |-> id, Email |-> req.Email, Phone |-> req.Phone,
                      Role |-> req.Role]
             profile == [UserID |-> NoID, InstitutionID |-> req.InstitutionID]
             tx == CreateWithProfile(rows, profiles, user, profile)
         IN IF tx.err
            THEN [res |-> "ErrInternalServer", rows |-> rows, profiles |-> profiles]
            ELSE [res |-> "ok", rows |-> tx.rows, profiles |-> tx.profiles]

\* what the last call was, who made it and what it touched
UMResult(op, res, c, id, targetInstitution, changed) ==
    [op |-> op, res |-> res, role |-> c.user_role, institution |-> c.institution_id,
     id |-> id, target_institution |-> targetInstitution, changed |-> changed]

\* POST /auth/register: AuthMiddleware, RequireAdmin, AuthHandler.Register
RegisterRoute(uid, req) ==
    /\ nextUserId <= MaxUsers
    /\ \E u \in userRows :
          /\ u.ID = uid
          /\ LET c == AuthMiddleware(u, userProfiles)
                 gate == RequireAdmin(c)
                 out == Register(userRows, userProfiles, nextUserId, req)
             IN IF gate # "next"
                THEN /\ umResult' = UMResult("Register", gate, c, NoID, "", FALSE)
                     /\ UNCHANGED <<userRows, userProfiles, nextUserId>>
                ELSE /\ userRows' = out.rows
                     /\ userProfiles' = out.profiles
                     /\ nextUserId' = IF out.res = "ok" THEN nextUserId + 1 ELSE nextUserId
                     /\ umResult' = UMResult("Register", out.res, c,
                                             IF out.res = "ok" THEN nextUserId ELSE NoID,
                                             req.InstitutionID, out.rows # userRows)
    /\ UNCHANGED <<roleRows, tenantVars, linkVars, sectionVars, coreVars, extVars>>

\* request bodies that pass the binding of RegisterRequest: a role accepted by
\* validateRole, institution_id empty or a uuid
TenantRegisterRequests ==
    [Email : {"new1@x", "new2@x"}, Phone : {""},
     Role : {RoleSuperAdmin, RoleAdmin, RoleTeacher}, InstitutionID : {"", "instA"}]

TenantInit ==
    /\ InitTimetables
    /\ InitAcademicYears
    /\ probe = NoProbe
    /\ InitAuth
    /\ InitExt
    /\ redisUp \in BOOLEAN
    /\ cache = {}
    /\ ctx = NoCtx
    /\ InitUsers
    /\ InitLinks
    /\ InitSections

TenantNext ==
    \/ \E uid \in 1..MaxUsers, h \in Headers, dbFails \in BOOLEAN : Request(uid, h, dbFails)
    \/ \E uid \in 1..MaxUsers, req \in TenantRegisterRequests : RegisterRoute(uid, req)

SpecTenant == TenantInit /\ [][TenantNext]_vars

\* C12: when a handler runs for a caller that is not SUPER_ADMIN the active
\* tenant is absent or the tenant of the caller's token, and a header that
\* disagrees with the token of such a caller ends in the cross-tenant error.
C12_OnlySuperAdminCrossesTenants ==
    (ctx.status # "none" /\ ctx.user_role # RoleSuperAdmin) =>
        /\ ctx.status = "next" => ctx.institution_id \in {"", ctx.token_institution}
        /\ (ctx.header # "" /\ ctx.header # ctx.token_institution) =>
               ctx.status = "ErrCrossTenantAccess"

\* C13: a token without tenant and a header: the header becomes the active
\* tenant only if it names an existing active institution, and a header that
\* names an unknown or inactive institution without cache entry ends in
\* not-found.
C13_HeaderAdoptedOnlyIfConfirmed ==
    (ctx.status # "none" /\ ctx.token_institution = "" /\ ctx.header # "") =>
        /\ (ctx.status = "next" /\ ctx.institution_id = ctx.header) =>
               (ctx.header \in cache \/ ActiveInstitutionCount(ctx.header) > 0)
        /\ (ParseUUID(ctx.header) /\ ActiveInstitutionCount(ctx.header) = 0
              /\ ctx.header \notin cache) => ctx.status = "ErrInstitutionNotFound"

(***************************************************************************)
(* User management: UserService and the four role services.  A teacher,    *)
(* student, parent or accountant row is identified here by the id of its    *)
(* user (the tables have a unique index on user_id).                        *)
(***************************************************************************)
\* InstitutionRepository.FindByID: any live row, active or not
InstitutionFindByID(id) == \E i \in InstitutionRows : i.ID = id

\* UserService.CreateUser: targetInstitutionID is computed and checked, the
\* request handed to Register is the one that came in
CreateUser(rows, profiles, id, req, creatorRole, creatorInstitutionID) ==
    LET targetInstitutionID ==
            IF req.InstitutionID = "" /\ creatorRole # RoleSuperAdmin
            THEN creatorInstitutionID ELSE req.InstitutionID
        refuse(err) == [res |-> err, rows |-> rows, profiles |-> profiles]
    IN IF creatorRole # RoleSuperAdmin /\ targetInstitutionID # creatorInstitutionID
       THEN refuse("ErrActionNotPermitted")
       ELSE IF creatorRole # RoleSuperAdmin /\ req.Role = RoleSuperAdmin
       THEN refuse("ErrActionNotPermitted")
       ELSE IF targetInstitutionID # "" /\ ~ParseUUID(targetInstitutionID)
       THEN refuse("ErrInvalidUUID")
       ELSE IF targetInstitutionID # "" /\ ~InstitutionFindByID(targetInstitutionID)
       THEN refuse("ErrInstitutionNotFound")
       ELSE IF targetInstitutionID = "" /\ req.Role # RoleSuperAdmin
       THEN refuse("institution_id is required")
       ELSE Register(rows, profiles, id, req)

\* POST /users: AuthMiddleware, TenantMiddleware, RequireAdmin, UserHandler.CreateUser
CreateUserRoute(uid, headerInstitutionID, req) ==
    /\ nextUserId <= MaxUsers
    /\ \E u \in userRows :
          /\ u.ID = uid
          /\ LET p == Protected(u, userProfiles, headerInstitutionID, redisUp, cache, FALSE)
                 gate == IF p.c.status = "next" THEN RequireAdmin(p.c) ELSE p.c.status
                 out == CreateUser(userRows, userProfiles, nextUserId, req,
                                   GetUserRole(p.c), GetInstitutionID(p.c))
             IN /\ cache' = p.cache
                /\ IF gate # "next"
                   THEN /\ umResult' = UMResult("CreateUser", gate, p.c, NoID, "", FALSE)
                        /\ UNCHANGED <<userRows, userProfiles, nextUserId>>
                   ELSE /\ userRows' = out.rows
                        /\ userProfiles' = out.profiles
                        /\ nextUserId' = IF out.res = "ok" THEN nextUserId + 1
                                         ELSE nextUserId
                        /\ umResult' = UMResult("CreateUser", out.res, p.c,
                                                IF out.res = "ok" THEN nextUserId ELSE NoID,
                                                req.InstitutionID, out.rows # userRows)
    /\ UNCHANGED <<roleRows, redisUp, ctx, linkVars, sectionVars, coreVars, extVars>>

\* db.Transaction(fn): the writes of fn are kept when fn returns nil and are
\* all undone when it returns an error
TransactionKeepsWrites(before, after, err) == after

Transaction(before, after, err) == IF err THEN before ELSE after

\* the body shared by CreateTeacher, CreateStudent, CreateParent and
\* CreateAccountant: the institution defaults to the creator's, then one
\* transaction inserts the user, the profile and the role row.  No query asks
\* whether the email or the phone is taken; idx_users_email makes the insert
\* of a second live row with the same email fail, the phone column has no
\* unique index.  subFails: the insert of the role row returns an error.
CreateRoleUser(tables, id, role, req, creatorInstitutionID, subFails) ==
    LET institutionID == IF req.InstitutionID = "" THEN creatorInstitutionID
                         ELSE req.InstitutionID
        user == [ID |-> id, Email |-> req.Email, Phone |-> req.Phone, Role |-> role]
        userFails == EmailExists(tables.rows, req.Email)
        written ==
            IF userFails THEN tables
            ELSE [rows |-> tables.rows \cup {user},
                  profiles |-> tables.profiles
                                 \cup {[UserID |-> id, InstitutionID |-> institutionID]},
                  roles |-> IF subFails THEN tables.roles
                            ELSE tables.roles
                                   \cup {[UserID |-> id, Role |-> role,
                                          InstitutionID |-> institutionID]}]
        err == userFails \/ subFails
    IN IF institutionID = ""
       THEN [res |-> "institution_id is required", tables |-> tables]
       ELSE [res |-> IF err THEN "ErrInternalServer" ELSE "ok",
             tables |-> Transaction(tables, written, err)]

CreateTeacher(tables, id, req, creatorInstitutionID, subFails) ==
    CreateRoleUser(tables, id, RoleTeacher, req, creatorInstitutionID, subFails)

CreateStudent(tables, id, req, creatorInstitutionID, subFails) ==
    CreateRoleUser(tables, id, RoleStudent, req, creatorInstitutionID, subFails)

CreateParent(tables, id, req, creatorInstitutionID, subFails) ==
    CreateRoleUser(tables, id, RoleParent, req, creatorInstitutionID, subFails)

CreateAccountant(tables, id, req, creatorInstitutionID, subFails) ==
    CreateRoleUser(tables, id, RoleAccountant, req, creatorInstitutionID, subFails)

Tables == [rows |-> userRows, profiles |-> userProfiles, roles |-> roleRows]

\* POST /teachers, /students, /parents, /accountants behind the protected
\* group and RequireAdmin
CreateRoleRoute(role, uid, headerInstitutionID, req, subFails) ==
    /\ nextUserId <= MaxUsers
    /\ \E u \in userRows :
          /\ u.ID = uid
          /\ LET p == Protected(u, userProfiles, headerInstitutionID, redisUp, cache, FALSE)
                 gate == IF p.c.status = "next" THEN RequireAdmin(p.c) ELSE p.c.status
                 inst == GetInstitutionID(p.c)
                 out == CASE role = RoleTeacher ->
                                CreateTeacher(Tables, nextUserId, req, inst, subFails)
                          [] role = RoleStudent ->
                                CreateStudent(Tables, nextUserId, req, inst, subFails)
                          [] role = RoleParent ->
                                CreateParent(Tables, nextUserId, req, inst, subFails)
                          [] OTHER ->
                                CreateAccountant(Tables, nextUserId, req, inst, subFails)
             IN /\ cache' = p.cache
                /\ IF gate # "next"
                   THEN /\ umResult' = UMResult("CreateRole", gate, p.c, NoID, "", FALSE)
                        /\ UNCHANGED <<userRows, userProfiles, roleRows, nextUserId>>
                   ELSE /\ userRows' = out.tables.rows
                        /\ userProfiles' = out.tables.profiles
                        /\ roleRows' = out.tables.roles
                        /\ nextUserId' = IF out.res = "ok" THEN nextUserId + 1
                                         ELSE nextUserId
                        /\ umResult' = UMResult("CreateRole", out.res, p.c,
                                                IF out.res = "ok" THEN nextUserId ELSE NoID,
                                                req.InstitutionID, out.tables # Tables)
    /\ UNCHANGED <<redisUp, ctx, linkVars, sectionVars, coreVars, extVars>>

\* the user row with its email and phone replaced where the request names one
WithContact(user, req) ==
    [user EXCEPT !.Email = IF req.Email # "" THEN req.Email ELSE @,
                 !.Phone = IF req.Phone # "" THEN req.Phone ELSE @]

\* UserService.UpdateUser
UpdateUserOutcome(rows, profiles, id, req, creatorRole, creatorInstitutionID) ==
    IF ~\E u \in rows : u.ID = id THEN [res |-> "ErrUserNotFound", rows |-> rows]
    ELSE LET user == CHOOSE u \in rows : u.ID = id
             inst == ProfileInstitution(profiles, id)
         IN IF creatorRole # RoleSuperAdmin /\ inst # "" /\ inst # creatorInstitutionID
            THEN [res |-> "ErrCrossTenantAccess", rows |-> rows]
            ELSE IF creatorRole # RoleSuperAdmin /\ user.Role = RoleSuperAdmin
            THEN [res |-> "ErrActionNotPermitted", rows |-> rows]
            ELSE IF req.Email # "" /\ req.Email # user.Email /\ EmailExists(rows, req.Email)
            THEN [res |-> "ErrEmailAlreadyExists", rows |-> rows]
            ELSE IF req.Phone # "" /\ req.Phone # user.Phone /\ PhoneExists(rows, req.Phone)
            THEN [res |-> "ErrPhoneAlreadyExists", rows |-> rows]
            ELSE [res |-> "ok", rows |-> (rows \ {user}) \cup {WithContact(user, req)}]

\* the body shared by UpdateTeacher, UpdateStudent and UpdateParent: the
\* tenant test is skipped for an empty institutionID, a changed email is
\* counted among the other users, the phone is stored unchecked
UpdateRoleUser(tables, role, id, req, institutionID) ==
    IF ~\E r \in tables.roles : r.UserID = id /\ r.Role = role
    THEN [res |-> "ErrResourceNotFound", rows |-> tables.rows]
    ELSE LET sub == CHOOSE r \in tables.roles : r.UserID = id /\ r.Role = role
             user == CHOOSE u \in tables.rows : u.ID = id
         IN IF institutionID # "" /\ sub.InstitutionID # institutionID
            THEN [res |-> "ErrCrossTenantAccess", rows |-> tables.rows]
            ELSE IF req.Email # "" /\ req.Email # user.Email
                    /\ \E o \in tables.rows : o.Email = req.Email /\ o.ID # user.ID
            THEN [res |-> "ErrEmailAlreadyExists", rows |-> tables.rows]
            ELSE [res |-> "ok",
                  rows |-> (tables.rows \ {user}) \cup {WithContact(user, req)}]

UpdateTeacher(tables, id, req, institutionID) ==
    UpdateRoleUser(tables, RoleTeacher, id, req, institutionID)

UpdateStudent(tables, id, req, institutionID) ==
    UpdateRoleUser(tables, RoleStudent, id, req, institutionID)

UpdateParent(tables, id, req, institutionID) ==
    UpdateRoleUser(tables, RoleParent, id, req, institutionID)

\* the institution a target belongs to: the role row's for a role update,
\* the profile's for UpdateUser
TargetInstitution(role, id) ==
    IF role # "" /\ \E r \in roleRows : r.UserID = id /\ r.Role = role
    THEN (CHOOSE r \in roleRows : r.UserID = id /\ r.Role = role).InstitutionID
    ELSE ProfileInstitution(userProfiles, id)

\* PUT /users/:id (role = "") and PUT /teachers/:id, /students/:id, /parents/:id
UpdateRoute(role, uid, headerInstitutionID, id, req) ==
    /\ \E u \in userRows :
          /\ u.ID = uid
          /\ LET p == Protected(u, userProfiles, headerInstitutionID, redisUp, cache, FALSE)
                 gate == IF p.c.status = "next" THEN RequireAdmin(p.c) ELSE p.c.status
                 inst == GetInstitutionID(p.c)
                 out == CASE role = "" ->
                                UpdateUserOutcome(userRows, userProfiles, id, req,
                                                  GetUserRole(p.c), inst)
                          [] role = RoleTeacher -> UpdateTeacher(Tables, id, req, inst)
                          [] role = RoleStudent -> UpdateStudent(Tables, id, req, inst)
                          [] OTHER -> UpdateParent(Tables, id, req, inst)
                 op == IF role = "" THEN "UpdateUser" ELSE "UpdateRole"
             IN /\ cache' = p.cache
                /\ IF gate # "next"
                   THEN /\ umResult' = UMResult(op, gate, p.c, NoID, "", FALSE)
                        /\ UNCHANGED userRows
                   ELSE /\ userRows' = out.rows
                        /\ umResult' = UMResult(op, out.res, p.c, NoID,
                                                TargetInstitution(role, id),
                                                out.rows # userRows)
    /\ UNCHANGED <<userProfiles, roleRows, nextUserId, redisUp, ctx, linkVars,
                   sectionVars, coreVars, extVars>>

\* request bodies: a fresh email or a taken one, no phone or a taken one
UserRequest(email, phone, role, inst) ==
    [Email |-> email, Phone |-> phone, Role |-> role, InstitutionID |-> inst]

UserRequests ==
    {UserRequest("new1@x", "", RoleAdmin, inst) : inst \in {"", "instA", "instB"}}
      \cup {UserRequest("new1@x", "", RoleSuperAdmin, ""),
            UserRequest("new1@x", "555-1", RoleAdmin, "instA"),
            UserRequest("admin@a", "", RoleAdmin, "instA")}

RoleUserRequests ==
    {[Email |-> "new1@x", Phone |-> "", InstitutionID |-> ""],
     [Email |-> "new1@x", Phone |-> "", InstitutionID |-> "instB"],
     [Email |-> "new1@x", Phone |-> "555-1", InstitutionID |-> "instB"],
     [Email |-> "admin@a", Phone |-> "", InstitutionID |-> "instB"]}

UpdateContactRequests ==
    {[Email |-> "", Phone |-> "555-1"], [Email |-> "admin@a", Phone |-> ""],
     [Email |-> "new2@x", Phone |-> ""]}

\* the users whose access token a request carries: every user that may pass
\* RequireAdmin, the created one included
Callers == {1, 2} \cup (4..MaxUsers)

RoleKinds == {RoleTeacher, RoleStudent, RoleParent, RoleAccountant}

UsersInit ==
    /\ InitTimetables
    /\ InitAcademicYears
    /\ probe = NoProbe
    /\ InitAuth
    /\ InitExt
    /\ InitMgmt

UsersNext ==
    \/ \E uid \in Callers, req \in UserRequests : RegisterRoute(uid, req)
    \/ \E uid \in Callers, h \in {"", "instB"}, req \in UserRequests :
          CreateUserRoute(uid, h, req)
    \/ \E role \in RoleKinds, uid \in Callers, h \in {"", "instB"},
          req \in RoleUserRequests, subFails \in BOOLEAN :
          CreateRoleRoute(role, uid, h, req, subFails)
    \/ \E role \in {"", RoleTeacher, RoleStudent, RoleParent}, uid \in Callers,
          h \in {"", "instB"}, id \in 2..MaxUsers, req \in UpdateContactRequests :
          UpdateRoute(role, uid, h, id, req)

SpecUsers == UsersInit /\ [][UsersNext]_vars

\* C14: CreateUser by a creator that is not SUPER_ADMIN is refused with
\* ErrActionNotPermitted when the request names another institution, and a
\* user it creates has the creator's institution in its profile, never none.
C14_CreatedUserInCreatorInstitution ==
    (umResult.op = "CreateUser" /\ umResult.role \notin {"", RoleSuperAdmin}) =>
        /\ umResult.target_institution \notin {"", umResult.institution} =>
               umResult.res = "ErrActionNotPermitted"
        /\ umResult.res = "ok" =>
               /\ ProfileInstitution(userProfiles, umResult.id) # ""
               /\ ProfileInstitution(userProfiles, umResult.id) = umResult.institution

\* C15: a user stored by CreateUser or by POST /auth/register for a caller
\* that is not SUPER_ADMIN does not have the role SUPER_ADMIN.
C15_NoSuperAdminFromNonSuperAdmin ==
    (umResult.op \in {"CreateUser", "Register"} /\ umResult.res = "ok"
       /\ umResult.role # RoleSuperAdmin) =>
        \A u \in userRows : u.ID = umResult.id => u.Role # RoleSuperAdmin

\* C16: no two users share an email and no two users share a non-empty
\* phone, and a call that answers with an error has changed no row.
C16_EmailAndPhoneUnique ==
    /\ \A u1 \in userRows, u2 \in userRows :
          u1.ID # u2.ID =>
              /\ u1.Email # u2.Email
              /\ u1.Phone # "" => u1.Phone # u2.Phone
    /\ (umResult.op # "none" /\ umResult.res # "ok") => ~umResult.changed

C18_CrossTenantUpdateRefused ==
    (umResult.op \in {"UpdateUser", "UpdateRole"}
       /\ umResult.role \notin {"", RoleSuperAdmin}
       /\ umResult.res \notin {"ErrRoleNotAllowed", "ErrUserNotFound", "ErrResourceNotFound"}
       /\ umResult.target_institution # ""
       /\ umResult.target_institution # umResult.institution) =>
        /\ umResult.res = "ErrCrossTenantAccess"
        /\ ~umResult.changed

(***************************************************************************)
(* Parent-student relations: StudentService.LinkParent and UnlinkParent.   *)
(* A relation row keeps its deleted_at; the queries see the live rows.      *)
(***************************************************************************)
MaxRel == 3         \* relation rows ever inserted

\* two students and three parents, the students and parents of the seeder
LinkRoleRows ==
    {[UserID |-> 11, Role |-> RoleStudent, InstitutionID |-> "instA"],
     [UserID |-> 12, Role |-> RoleStudent, InstitutionID |-> "instB"],
     [UserID |-> 21, Role |-> RoleParent, InstitutionID |-> "instA"],
     [UserID |-> 22, Role |-> RoleParent, InstitutionID |-> "instB"],
     [UserID |-> 23, Role |-> RoleParent, InstitutionID |-> "instA"]}

LinkUserRows ==
    {[ID |-> r.UserID, Email |-> <<"user", r.UserID>>, Phone |-> "", Role |-> r.Role] :
        r \in LinkRoleRows}

LinkUserProfiles ==
    {[UserID |-> r.UserID, InstitutionID |-> r.InstitutionID] : r \in LinkRoleRows}

LiveRelations(rels) == {r \in rels : ~r.Deleted}

\* SELECT count(*) FROM parent_student_relations WHERE parent_id = ? AND
\* student_id = ? AND deleted_at IS NULL
RelationCount(rels, parentID, studentID) ==
    Cardinality({r \in LiveRelations(rels) :
                    r.ParentID = parentID /\ r.StudentID = studentID})

LinkParentOutcomeNoCount(roles, rels, id, studentID, parentID) ==
    IF ~\E st \in roles : st.UserID = studentID /\ st.Role = RoleStudent
    THEN [res |-> "ErrResourceNotFound", rels |-> rels]
    ELSE LET student == CHOOSE st \in roles :
                            st.UserID = studentID /\ st.Role = RoleStudent
         IN IF ~\E pa \in roles : /\ pa.UserID = parentID
                                   /\ pa.Role = RoleParent
                                   /\ pa.InstitutionID = student.InstitutionID
            THEN [res |-> "ErrInvalidParentStudentLink", rels |-> rels]
            ELSE [res |-> "ok",
                  rels |-> rels \cup {[ID |-> id, ParentID |-> parentID,
                                        StudentID |-> studentID, Deleted |-> FALSE]}]

\* StudentService.LinkParent: the student is found by id alone, the parent
\* must be a row of the student's institution, a live relation of the pair
\* makes the call fail
LinkParentOutcome(roles, rels, id, studentID, parentID) ==
    IF ~\E st \in roles : st.UserID = studentID /\ st.Role = RoleStudent
    THEN [res |-> "ErrResourceNotFound", rels |-> rels]
    ELSE LET student == CHOOSE st \in roles :
                            st.UserID = studentID /\ st.Role = RoleStudent
         IN IF ~\E pa \in roles : /\ pa.UserID = parentID
                                   /\ pa.Role = RoleParent
                                   /\ pa.InstitutionID = student.InstitutionID
            THEN [res |-> "ErrInvalidParentStudentLink", rels |-> rels]
            ELSE IF RelationCount(rels, parentID, studentID) > 0
            THEN [res |-> "ErrResourceExists", rels |-> rels]
            ELSE [res |-> "ok",
                  rels |-> rels \cup {[ID |-> id, ParentID |-> parentID,
                                        StudentID |-> studentID, Deleted |-> FALSE]}]

LinkParent(studentID, parentID) ==
    /\ nextRelId <= MaxRel
    /\ LET out == LinkParentOutcome(roleRows, relations, nextRelId, studentID, parentID)
       IN /\ relations' = out.rels
          /\ nextRelId' = IF out.res = "ok" THEN nextRelId + 1 ELSE nextRelId
          /\ linkResult' = [op |-> "LinkParent", res |-> out.res, parent |-> parentID,
                            student |-> studentID,
                            linked |-> RelationCount(relations, parentID, studentID) > 0,
                            rows |-> Cardinality(out.rels) - Cardinality(relations)]
    /\ UNCHANGED <<tenantVars, userVars, sectionVars, coreVars, extVars>>

\* StudentService.UnlinkParent: soft-deletes every live relation of the pair
UnlinkParent(studentID, parentID) ==
    /\ LET hit == {r \in LiveRelations(relations) :
                      r.ParentID = parentID /\ r.StudentID = studentID}
           res == IF ~\E st \in roleRows : st.UserID = studentID /\ st.Role = RoleStudent
                  THEN "ErrResourceNotFound"
                  ELSE IF hit = {} THEN "ErrResourceNotFound" ELSE "ok"
       IN /\ relations' = IF res = "ok"
                          THEN (relations \ hit) \cup {[r EXCEPT !.Deleted = TRUE] : r \in hit}
                          ELSE relations
          /\ linkResult' = [op |-> "UnlinkParent", res |-> res, parent |-> parentID,
                            student |-> studentID, linked |-> hit # {},
                            rows |-> 0]
    /\ UNCHANGED <<nextRelId, tenantVars, userVars, sectionVars, coreVars, extVars>>

LinkStudents == {11, 12, 13}
LinkParents == {21, 22, 23, 24}

LinksInit ==
    /\ InitTimetables
    /\ InitAcademicYears
    /\ probe = NoProbe
    /\ InitAuth
    /\ InitExt
    /\ InitTenant
    /\ userRows = LinkUserRows
    /\ userProfiles = LinkUserProfiles
    /\ roleRows = LinkRoleRows
    /\ nextUserId = 25
    /\ umResult = NoUMResult
    /\ InitLinks
    /\ InitSections

LinksNext ==
    \/ \E st \in LinkStudents, pa \in LinkParents : LinkParent(st, pa)
    \/ \E st \in LinkStudents, pa \in LinkParents : UnlinkParent(st, pa)

SpecLinks == LinksInit /\ [][LinksNext]_vars

RoleInstitution(id) == (CHOOSE r \in roleRows : r.UserID = id).InstitutionID

\* C19: every (parent, student) pair has at most one live relation row, the
\* two ends of a live relation belong to one institution, and LinkParent of a
\* pair that is linked fails and adds no row.
C19_OneRelationPerPair ==
    /\ \A r1 \in LiveRelations(relations), r2 \in LiveRelations(relations) :
          (r1.ParentID = r2.ParentID /\ r1.StudentID = r2.StudentID) => r1.ID = r2.ID
    /\ \A r \in LiveRelations(relations) :
          RoleInstitution(r.ParentID) = RoleInstitution(r.StudentID)
    /\ (linkResult.op = "LinkParent" /\ linkResult.linked) =>
          (linkResult.res # "ok" /\ linkResult.rows = 0)

\* a second LinkParent of a linked pair was refused, after the pair had been
\* unlinked and linked again
C19_Witness ==
    /\ linkResult.op = "LinkParent"
    /\ linkResult.linked
    /\ linkResult.res = "ErrResourceExists"
    /\ \E r \in relations : r.Deleted /\ r.ParentID = linkResult.parent
                               /\ r.StudentID = linkResult.student

(***************************************************************************)
(* Sections and classes.section_count: ClassService.CreateSection and      *)
(* DeleteSection load the class row, change SectionCount in memory and      *)
(* save the whole row; requests of two workers interleave between the load  *)
(* and the save.                                                            *)
(***************************************************************************)
MaxSections == 4    \* section rows ever inserted, the two seeded ones included

SectionNames == {"A", "C"}

\* ClassRepository.FindByIDWithInstitution
ClassFindByIDWithInstitution(classID, institutionID) ==
    \E c \in ClassRows : c.ID = classID /\ c.InstitutionID = institutionID

\* SectionRepository.NameExistsInClass with excludeID nil
NameExistsInClass(secs, name, classID) ==
    \E sec \in secs : sec.Name = name /\ sec.ClassID = classID

\* CreateSection up to the name check: the class row is in memory
BeginCreateSection(w, classID, name, institutionID) ==
    /\ secInflight[w] = Idle
    /\ nextSectionId <= MaxSections
    /\ IF ~ClassFindByIDWithInstitution(classID, institutionID)
       THEN /\ secResult' = [op |-> "CreateSection", res |-> "ErrNotFound"]
            /\ UNCHANGED secInflight
       ELSE IF NameExistsInClass(sections, name, classID)
       THEN /\ secResult' = [op |-> "CreateSection", res |-> "name exists"]
            /\ UNCHANGED secInflight
       ELSE /\ secInflight' = [secInflight EXCEPT ![w] =
                                  [op |-> "CreateSection", ClassID |-> classID,
                                   Name |-> name,
                                   SectionCount |-> classSectionCount[classID]]]
            /\ UNCHANGED secResult
    /\ UNCHANGED <<sections, nextSectionId, classSectionCount, tenantVars, userVars,
                   linkVars, coreVars, extVars>>

\* CreateSection from the insert on: the section is inserted, SectionCount
\* of the loaded class is incremented and the class row is saved
FinishCreateSection(w) ==
    /\ secInflight[w] # Idle
    /\ secInflight[w].op = "CreateSection"
    /\ sections' = sections \cup {[ID |-> nextSectionId,
                                    ClassID |-> secInflight[w].ClassID,
                                    Name |-> secInflight[w].Name]}
    /\ nextSectionId' = nextSectionId + 1
    /\ classSectionCount' = [classSectionCount EXCEPT ![secInflight[w].ClassID] =
                                secInflight[w].SectionCount + 1]
    /\ secInflight' = [secInflight EXCEPT ![w] = Idle]
    /\ secResult' = [op |-> "CreateSection", res |-> "ok"]
    /\ UNCHANGED <<tenantVars, userVars, linkVars, coreVars, extVars>>

\* DeleteSection up to the load of the class: the section exists, it has no
\* students (studentCount is what GetSectionStudentCount answers), the class
\* row is in memory
BeginDeleteSection(w, sectionID, studentCount) ==
    /\ secInflight[w] = Idle
    /\ IF ~\E sec \in sections : sec.ID = sectionID
       THEN /\ secResult' = [op |-> "DeleteSection", res |-> "ErrNotFound"]
            /\ UNCHANGED secInflight
       ELSE IF studentCount > 0
       THEN /\ secResult' = [op |-> "DeleteSection", res |-> "section has students"]
            /\ UNCHANGED secInflight
       ELSE LET section == CHOOSE sec \in sections : sec.ID = sectionID
            IN /\ secInflight' = [secInflight EXCEPT ![w] =
                                     [op |-> "DeleteSection", ClassID |-> section.ClassID,
                                      ID |-> sectionID,
                                      SectionCount |-> classSectionCount[section.ClassID]]]
               /\ UNCHANGED secResult
    /\ UNCHANGED <<sections, nextSectionId, classSectionCount, tenantVars, userVars,
                   linkVars, coreVars, extVars>>

\* DeleteSection from the decrement on: a positive SectionCount of the loaded
\* class is decremented and saved, then the section is soft-deleted
FinishDeleteSection(w) ==
    /\ secInflight[w] # Idle
    /\ secInflight[w].op = "DeleteSection"
    /\ classSectionCount' =
          IF secInflight[w].SectionCount > 0
          THEN [classSectionCount EXCEPT ![secInflight[w].ClassID] =
                   secInflight[w].SectionCount - 1]
          ELSE classSectionCount
    /\ sections' = {sec \in sections : sec.ID # secInflight[w].ID}
    /\ secInflight' = [secInflight EXCEPT ![w] = Idle]
    /\ secResult' = [op |-> "DeleteSection", res |-> "ok"]
    /\ UNCHANGED <<nextSectionId, tenantVars, userVars, linkVars, coreVars, extVars>>

SectionsInit ==
    /\ InitTimetables
    /\ InitAcademicYears
    /\ probe = NoProbe
    /\ InitAuth
    /\ InitExt
    /\ InitMgmt

SectionsNext ==
    \/ \E w \in Workers, cl \in ClassRows, name \in SectionNames, inst \in Tenants :
          BeginCreateSection(w, cl.ID, name, inst)
    \/ \E w \in Workers : FinishCreateSection(w)
    \/ \E w \in Workers, id \in 1..MaxSections, studentCount \in {0, 1} :
          BeginDeleteSection(w, id, studentCount)
    \/ \E w \in Workers : FinishDeleteSection(w)

SpecSections == SectionsInit /\ [][SectionsNext]_vars

\* C20: once no CreateSection or DeleteSection call is under way, the
\* section_count of every class is the number of its live sections.
C20_SectionCountMatchesSections ==
    (\A w \in Workers : secInflight[w] = Idle) =>
        \A cl \in ClassRows :
            classSectionCount[cl.ID] =
                Cardinality({sec \in sections : sec.ClassID = cl.ID})

(***************************************************************************)
(* Timetable lookups: GET /timetable/:id and the weekly views by class,    *)
(* section and teacher.  institutionID is the caller's active tenant       *)
(* (middleware.GetInstitutionID); the section and teacher views never read *)
(* it.  academicYearID "" is the nil filter.                               *)
(***************************************************************************)
ReadResult(op, institutionID, found, rows) ==
    [op |-> op, institution |-> institutionID, found |-> found,
     owners |-> {row.InstitutionID : row \in rows}]

AcademicYearFilters == {"", "ay1", "ay2"}

\* query.Where("academic_year_id = ?", ...) is added only for a non-nil filter
WhereAcademicYear(rows, academicYearID) ==
    IF academicYearID = "" THEN rows
    ELSE {row \in rows : row.AcademicYearID = academicYearID}

GetByID(id, institutionID) ==
    LET tt == FindByIDWithInstitution(timetables, id, institutionID)
    IN /\ readResult' = ReadResult("GetByID", institutionID, tt # {}, tt)
       /\ UNCHANGED <<coreVars, mgmtVars, subjectVars, secAdminResult, permResult, bearerCtx, ayInflight, rateVars>>

GetByClassID(classID, institutionID, academicYearID) ==
    LET FindByClassID == WhereAcademicYear(
            {row \in timetables : row.ClassID = classID /\ row.IsActive}, academicYearID)
    IN /\ readResult' = IF ~ClassFound(classID, institutionID)
                        THEN ReadResult("GetByClassID", institutionID, FALSE, {})
                        ELSE ReadResult("GetByClassID", institutionID, TRUE, FindByClassID)
       /\ UNCHANGED <<coreVars, mgmtVars, subjectVars, secAdminResult, permResult, bearerCtx, ayInflight, rateVars>>

GetBySectionID(sectionID, institutionID, academicYearID) ==
    LET FindBySectionID == WhereAcademicYear(
            {row \in timetables : row.SectionID = sectionID /\ row.IsActive}, academicYearID)
    IN /\ readResult' = IF ~SectionFindByID(sectionID)
                        THEN ReadResult("GetBySectionID", institutionID, FALSE, {})
                        ELSE ReadResult("GetBySectionID", institutionID, TRUE, FindBySectionID)
       /\ UNCHANGED <<coreVars, mgmtVars, subjectVars, secAdminResult, permResult, bearerCtx, ayInflight, rateVars>>

GetByTeacherID(teacherID, institutionID, academicYearID) ==
    LET FindByTeacherID == WhereAcademicYear(
            {row \in timetables : row.TeacherID = teacherID /\ row.IsActive}, academicYearID)
    IN /\ readResult' = IF ~TeacherFindByID(teacherID)
                        THEN ReadResult("GetByTeacherID", institutionID, FALSE, {})
                        ELSE ReadResult("GetByTeacherID", institutionID, TRUE, FindByTeacherID)
       /\ UNCHANGED <<coreVars, mgmtVars, subjectVars, secAdminResult, permResult, bearerCtx, ayInflight, rateVars>>

\* each tenant books its own class, section, subject and teacher
ReadsCreateRequests(inst) ==
    {CreateRequest(OwnAcademicYear(inst), OwnClass(inst),
                   IF inst = "instA" THEN "secA" ELSE "secB", OwnSubject(inst),
                   TeacherOf(inst), "MONDAY", s, T1030, "") : s \in StartTimes}

ReadsNext ==
    \/ \E inst \in Tenants : \E req \in ReadsCreateRequests(inst) : Create(req, inst)
    \/ \E inst \in Tenants, id \in TTIds : GetByID(id, inst)
    \/ \E inst \in Tenants, c \in ClassRows, y \in AcademicYearFilters :
          GetByClassID(c.ID, inst, y)
    \/ \E inst \in Tenants, sec \in {"secA", "secB", "secX"}, y \in AcademicYearFilters :
          GetBySectionID(sec, inst, y)
    \/ \E inst \in Tenants, t \in {"teachA", "teachB", "teachX"}, y \in AcademicYearFilters :
          GetByTeacherID(t, inst, y)

SpecReads == Init /\ [][ReadsNext]_vars

\* C21: a timetable lookup made with active tenant A (GetByID and the weekly
\* views by class, section and teacher) returns only entries whose
\* institution_id is A.
C21_ReadsStayInTenant ==
    readResult.found => readResult.owners \subseteq {readResult.institution}

(***************************************************************************)
(* AuthHandler.ForgotPassword answers 200 with the generic message when    *)
(* the service returns nil and 500 otherwise; authResult.res is the        *)
(* service's return value.                                                 *)
(***************************************************************************)
\* C22: ForgotPassword answers every caller alike (200, generic message),
\* whether or not the submitted email belongs to an account: as an unknown
\* email is always answered with "ok", so is every other email.
C22_ForgotPasswordSameResponse ==
    authResult.op = "forgot" => authResult.res = "ok"

(***************************************************************************)
(* SubjectService.Create and Update.  A subject row is                     *)
(* [ID, InstitutionID, Name, ClassID]; ClassID "" is a nil class_id.  The  *)
(* requests carry no code and no teacher, so the CodeExists and teacher    *)
(* lookups are skipped as in the source for an empty field.                *)
(***************************************************************************)
MaxSubjects == 3    \* subject rows ever inserted

SubjectNames == {"Math", "Physics"}

SubjectFindByIDWithInstitution(rows, id, institutionID) ==
    {sb \in rows : sb.ID = id /\ sb.InstitutionID = institutionID}

\* excludeID NoID is the nil pointer of Create
SubjectNameExistsInClass(rows, name, classID, excludeID) ==
    \E sb \in rows : /\ sb.Name = name
                      /\ sb.ClassID = classID
                      /\ (excludeID # NoID => sb.ID # excludeID)

SubjectCreate(req, institutionID) ==
    LET res == IF req.ClassID = "" THEN "ok"
               ELSE IF ~ClassFound(req.ClassID, institutionID) THEN "class not found"
               ELSE IF SubjectNameExistsInClass(subjects, req.Name, req.ClassID, NoID)
               THEN "subject with this name already exists in class"
               ELSE "ok"
    IN /\ res = "ok" => nextSubjectId <= MaxSubjects
       /\ subjResult' = res
       /\ IF res = "ok"
          THEN /\ subjects' = subjects \cup {[ID |-> nextSubjectId,
                                               InstitutionID |-> institutionID,
                                               Name |-> req.Name, ClassID |-> req.ClassID]}
               /\ nextSubjectId' = nextSubjectId + 1
          ELSE UNCHANGED <<subjects, nextSubjectId>>
       /\ UNCHANGED <<coreVars, mgmtVars, readResult, secAdminResult, permResult, bearerCtx, ayInflight, rateVars>>

\* the name is checked against the class the row has when it is loaded; the
\* class is replaced afterwards, with only the tenant-scoped class lookup
SubjectUpdateOutcome(rows, id, req, institutionID) ==
    LET found == SubjectFindByIDWithInstitution(rows, id, institutionID)
        subject == CHOOSE sb \in found : TRUE
    IN IF found = {} THEN "not found"
       ELSE IF /\ req.Name # "" /\ req.Name # subject.Name
               /\ subject.ClassID # ""
               /\ SubjectNameExistsInClass(rows, req.Name, subject.ClassID, id)
       THEN "subject with this name already exists in class"
       ELSE IF req.ClassID # "" /\ ~ClassFound(req.ClassID, institutionID)
       THEN "class not found"
       ELSE "ok"

SubjectUpdate(id, req, institutionID) ==
    LET res == SubjectUpdateOutcome(subjects, id, req, institutionID)
        subject == CHOOSE sb \in SubjectFindByIDWithInstitution(subjects, id, institutionID) : TRUE
        saved == [subject EXCEPT
                    !.Name = IF req.Name # "" THEN req.Name ELSE @,
                    !.ClassID = IF req.ClassID # "" THEN req.ClassID ELSE @]
    IN /\ subjResult' = res
       /\ subjects' = IF res = "ok"
                      THEN {sb \in subjects : sb.ID # id} \cup {saved}
                      ELSE subjects
       /\ UNCHANGED <<nextSubjectId, coreVars, mgmtVars, readResult, secAdminResult, permResult, bearerCtx, ayInflight, rateVars>>

SubjectRequests ==
    {[Name |-> n, ClassID |-> c] : n \in SubjectNames \cup {""}, c \in {"", "classA", "classB"}}

SubjectsNext ==
    \/ \E inst \in Tenants : \E req \in {r \in SubjectRequests : r.Name # ""} :
          SubjectCreate(req, inst)
    \/ \E inst \in Tenants, id \in 1..MaxSubjects : \E req \in SubjectRequests :
          SubjectUpdate(id, req, inst)

SpecSubjects == Init /\ [][SubjectsNext]_vars

\* C23: after any sequence of sequential creates and updates no two
\* subjects assigned to the same class share a name, also after an Update
\* that changes the subject's class or its name and class together.
C23_NamesUniquePerScope ==
    \A a, b \in subjects :
        (a.ID # b.ID /\ a.ClassID # "" /\ a.ClassID = b.ClassID) => a.Name # b.Name

(***************************************************************************)
(* PUT and DELETE /sections/:id.  The routes sit behind RequireAdmin; the  *)
(* handlers pass only the section id to the service, so institutionID -    *)
(* the caller's active tenant - is recorded with the outcome and read by   *)
(* nothing else.  owner is the tenant of the class the section belongs to. *)
(***************************************************************************)
SecAdminResult(op, res, institutionID, sectionID) ==
    [op |-> op, res |-> res, institution |-> institutionID,
     owner |-> IF \E sec \in sections : sec.ID = sectionID
               THEN (CHOOSE cl \in ClassRows :
                        \E sec \in sections : sec.ID = sectionID /\ sec.ClassID = cl.ID).InstitutionID
               ELSE ""]

UpdateSection(sectionID, name, institutionID) ==
    LET found == {sec \in sections : sec.ID = sectionID}
        section == CHOOSE sec \in found : TRUE
        res == IF found = {} THEN "ErrNotFound"
               ELSE IF /\ name # "" /\ name # section.Name
                       /\ NameExistsInClass({sec \in sections : sec.ID # sectionID},
                                            name, section.ClassID)
               THEN "section with this name already exists in class"
               ELSE "ok"
    IN /\ secAdminResult' = SecAdminResult("UpdateSection", res, institutionID, sectionID)
       /\ sections' = IF res = "ok" /\ name # ""
                      THEN (sections \ found) \cup {[section EXCEPT !.Name = name]}
                      ELSE sections
       /\ UNCHANGED <<nextSectionId, classSectionCount, secInflight, secResult, tenantVars,
                      userVars, linkVars, coreVars, readResult, subjectVars, permResult, bearerCtx, ayInflight, rateVars>>

DeleteSection(sectionID, institutionID, studentCount) ==
    LET found == {sec \in sections : sec.ID = sectionID}
        section == CHOOSE sec \in found : TRUE
        res == IF found = {} THEN "ErrNotFound"
               ELSE IF studentCount > 0 THEN "cannot delete section with students"
               ELSE "ok"
    IN /\ secAdminResult' = SecAdminResult("DeleteSection", res, institutionID, sectionID)
       /\ IF res = "ok"
          THEN /\ classSectionCount' =
                     IF classSectionCount[section.ClassID] > 0
                     THEN [classSectionCount EXCEPT ![section.ClassID] = @ - 1]
                     ELSE classSectionCount
               /\ sections' = sections \ found
          ELSE UNCHANGED <<sections, classSectionCount>>
       /\ UNCHANGED <<nextSectionId, secInflight, secResult, tenantVars,
                      userVars, linkVars, coreVars, readResult, subjectVars, permResult, bearerCtx, ayInflight, rateVars>>

SectionAdminNext ==
    \/ \E cl \in ClassRows, name \in SectionNames, inst \in Tenants :
          BeginCreateSection(1, cl.ID, name, inst)
    \/ FinishCreateSection(1)
    \/ \E id \in 1..MaxSections, name \in SectionNames \cup {""}, inst \in Tenants :
          UpdateSection(id, name, inst)
    \/ \E id \in 1..MaxSections, inst \in Tenants, studentCount \in {0, 1} :
          DeleteSection(id, inst, studentCount)

SpecSectionAdmin == SectionsInit /\ [][SectionAdminNext]_vars

\* C24: an UpdateSection or DeleteSection requested under active tenant A
\* succeeds only on a section whose class belongs to A, so it never renames
\* or deletes a section of another tenant nor changes that tenant's
\* section_count.
C24_SectionMutationsStayInTenant ==
    (secAdminResult.op # "none" /\ secAdminResult.res = "ok") =>
        secAdminResult.owner = secAdminResult.institution

(***************************************************************************)
(* Permission middleware.  The caller's permissions are the                *)
(* "user_permissions" of the context, which AuthMiddleware copies from the *)
(* access token, where Login and RefreshToken put                          *)
(* GetPermissionsForRole(user.Role).  Slices are sequences.                *)
(***************************************************************************)
MaxPerms == 2       \* permissions named by one RequirePermission call

RolePermissions ==
    [role \in {RoleSuperAdmin, RoleAdmin, RoleTeacher, RoleStudent, RoleParent, RoleAccountant} |->
        CASE role = RoleSuperAdmin -> <<"*">>
          [] role = RoleAdmin ->
                <<"USER_CREATE", "USER_UPDATE", "USER_DELETE", "USER_VIEW",
                  "STUDENT_MANAGE", "TEACHER_MANAGE", "CLASS_MANAGE",
                  "SECTION_MANAGE", "SUBJECT_MANAGE", "DEPARTMENT_MANAGE",
                  "ACADEMIC_YEAR_MANAGE", "TIMETABLE_MANAGE",
                  "FEE_STRUCTURE_MANAGE",
                  "NOTICE_PUBLISH", "ANNOUNCEMENT_CREATE",
                  "REPORT_GENERATE",
                  "LEAVE_APPROVE",
                  "LIBRARY_MANAGE",
                  "EVENT_MANAGE">>
          [] role = RoleTeacher ->
                <<"ATTENDANCE_MARK", "ATTENDANCE_VIEW",
                  "ASSIGNMENT_CREATE", "ASSIGNMENT_GRADE",
                  "EXAM_CREATE", "RESULT_ENTER",
                  "STUDENT_PROGRESS_VIEW",
                  "PARENT_COMMUNICATE", "MESSAGE_SEND",
                  "LEAVE_APPLY",
                  "RESOURCE_UPLOAD", "MATERIAL_UPLOAD",
                  "TIMETABLE_VIEW",
                  "ONLINE_CLASS_CREATE">>
          [] role = RoleStudent ->
                <<"PROFILE_VIEW_OWN", "PROFILE_UPDATE_OWN",
                  "ASSIGNMENT_VIEW", "ASSIGNMENT_SUBMIT",
                  "RESULT_VIEW_OWN",
                  "ATTENDANCE_VIEW_OWN",
                  "FEE_VIEW_OWN",
                  "LEAVE_APPLY",
                  "LIBRARY_BORROW", "LIBRARY_VIEW",
                  "EVENT_VIEW",
                  "MATERIAL_DOWNLOAD",
                  "MESSAGE_SEND", "NOTICE_VIEW">>
          [] role = RoleParent ->
                <<"STUDENT_PROGRESS_VIEW",
                  "FEE_PAY", "FEE_VIEW_CHILD",
                  "TEACHER_COMMUNICATE", "MESSAGE_SEND",
                  "ATTENDANCE_VIEW_CHILD",
                  "LEAVE_APPLY_CHILD",
                  "MEETING_SCHEDULE",
                  "EVENT_VIEW", "NOTICE_VIEW">>
          [] role = RoleAccountant ->
                <<"FEE_COLLECT", "FEE_VIEW_ALL", "FEE_STRUCTURE_VIEW",
                  "EXPENSE_MANAGE", "EXPENSE_CREATE", "EXPENSE_VIEW",
                  "SALARY_PROCESS", "SALARY_VIEW",
                  "FINANCIAL_REPORT_GENERATE",
                  "INVOICE_GENERATE",
                  "SCHOLARSHIP_MANAGE", "DISCOUNT_APPLY">>]

GetPermissionsForRole(role) ==
    IF role \in DOMAIN RolePermissions THEN RolePermissions[role] ELSE <<>>

contains(slice, item) == \E i \in 1..Len(slice) : slice[i] = item

\* the wildcard check left out
RequirePermissionNoWildcard(userPerms, permissions) ==
    \A i \in 1..Len(permissions) : contains(userPerms, permissions[i])

\* the loop over the required permissions: TRUE is c.Next(), FALSE is the
\* 403 of the first required permission the caller lacks
RequirePermission(userPerms, permissions) ==
    LET RECURSIVE loop(_)
        loop(i) == IF i > Len(permissions) THEN TRUE
                   ELSE IF ~contains(userPerms, permissions[i]) THEN FALSE
                   ELSE loop(i + 1)
    IN IF contains(userPerms, "*") THEN TRUE ELSE loop(1)

\* TRUE at the first required permission the caller holds, 403 after the loop
RequireAnyPermission(userPerms, permissions) ==
    LET RECURSIVE loop(_)
        loop(i) == IF i > Len(permissions) THEN FALSE
                   ELSE IF contains(userPerms, permissions[i]) THEN TRUE
                   ELSE loop(i + 1)
    IN IF contains(userPerms, "*") THEN TRUE ELSE loop(1)

\* one request of a caller whose token was issued for `role`, on a route
\* guarded by RequirePermission(permissions...) or RequireAnyPermission(...)
Guarded(op, role, permissions) ==
    /\ permResult' = [op |-> op, role |-> role, permissions |-> permissions,
                      passed |-> IF op = "RequirePermission"
                                 THEN RequirePermission(GetPermissionsForRole(role), permissions)
                                 ELSE RequireAnyPermission(GetPermissionsForRole(role), permissions)]
    /\ UNCHANGED <<coreVars, mgmtVars, readResult, subjectVars, secAdminResult, bearerCtx, ayInflight, rateVars>>

\* permission names routes may ask for: shared ones, one per role, one that
\* no role holds, and the wildcard itself
RequiredNames == {"USER_CREATE", "ATTENDANCE_MARK", "LEAVE_APPLY",
                  "AUDIT_VIEW", "*"}

RequiredLists == UNION {[1..n -> RequiredNames] : n \in 0..MaxPerms}

TokenRoles == DOMAIN RolePermissions \cup {"LIBRARIAN"}

PermissionsNext ==
    \E op \in {"RequirePermission", "RequireAnyPermission"}, role \in TokenRoles,
       permissions \in RequiredLists : Guarded(op, role, permissions)

SpecPermissions == Init /\ [][PermissionsNext]_vars

Elements(slice) == {slice[i] : i \in 1..Len(slice)}

\* C25: RequirePermission lets a request through exactly when the caller's
\* permissions contain "*" or every required permission, RequireAnyPermission
\* exactly when they contain "*" or at least one required permission, and
\* SUPER_ADMIN is the only role whose permissions contain "*".
C25_PermissionChecksExact ==
    LET userPerms == Elements(GetPermissionsForRole(permResult.role))
        required == Elements(permResult.permissions)
    IN /\ permResult.op = "RequirePermission" =>
             (permResult.passed <=> ("*" \in userPerms \/ required \subseteq userPerms))
       /\ permResult.op = "RequireAnyPermission" =>
             (permResult.passed <=> ("*" \in userPerms \/ required \cap userPerms # {}))
       /\ \A role \in TokenRoles :
             "*" \in Elements(GetPermissionsForRole(role)) <=> role = RoleSuperAdmin

\* a SUPER_ADMIN passes a check for a permission its list does not name
C25_Witness ==
    /\ permResult.op = "RequirePermission"
    /\ permResult.role = RoleSuperAdmin
    /\ permResult.permissions = <<"USER_CREATE", "AUDIT_VIEW">>
    /\ permResult.passed

(***************************************************************************)
(* Reset tokens: which token ResetPassword accepts, and what a successful  *)
(* call leaves behind.                                                     *)
(***************************************************************************)
ResetAccepts(tok) == ResetPasswordOutcome(users, issued, expired, tok) = "ok"

AccessClaims == [u \in UserIds |->
                    IF u = "u1" THEN [Role |-> RoleAdmin, InstitutionID |-> "instA"]
                    ELSE [Role |-> RoleTeacher, InstitutionID |-> "instB"]]

ValidateAccessToken(signed, exp, tokenString) ==
    IF tokenString \notin signed THEN "invalid token"
    ELSE IF tokenString \in exp THEN "token expired"
    ELSE "ok"

\* the Claims struct ValidateAccessToken returns for an accepted token
ParsedClaims(tokenString) ==
    IF tokenString.kind = "access"
    THEN [UserID |-> tokenString.sub, Role |-> AccessClaims[tokenString.sub].Role,
          InstitutionID |-> AccessClaims[tokenString.sub].InstitutionID]
    ELSE [UserID |-> "", Role |-> "", InstitutionID |-> ""]

\* a request of the protected group with `Authorization: Bearer tokenString`
\* and the given X-Institution-ID header; status "next" means the handler runs
BearerRequest(tokenString, headerInstitutionID) ==
    LET err == IF tokenString = NoToken THEN "token missing"
               ELSE ValidateAccessToken(issued, expired, tokenString)
        claims == ParsedClaims(tokenString)
        c == [NoCtx EXCEPT !.user_role = claims.Role,
                           !.token_institution = claims.InstitutionID,
                           !.institution_id = claims.InstitutionID]
        t == TenantMiddleware(c, headerInstitutionID, redisUp, cache, FALSE)
    IN /\ IF err # "ok"
          THEN /\ bearerCtx' = [NoBearerCtx EXCEPT !.status = err, !.kind = tokenString.kind]
               /\ UNCHANGED cache
          ELSE /\ bearerCtx' = [status |-> t.status, kind |-> tokenString.kind,
                                user_id |-> claims.UserID, user_role |-> claims.Role,
                                institution_id |-> t.institution_id]
               /\ cache' = t.cache
       /\ UNCHANGED <<redisUp, ctx, userVars, linkVars, sectionVars, coreVars,
                      readResult, subjectVars, secAdminResult, permResult, ayInflight, rateVars>>

BearerNext ==
    \/ \E email \in UserIds, pw \in Passwords : Login(email, pw)
    \/ \E email \in UserIds \cup {"nobody"}, saved \in BOOLEAN : ForgotPassword(email, saved)
    \/ \E tok \in issued : Expire(tok)
    \/ \E tok \in Presentable, h \in {"", "instA", "instB"} : BearerRequest(tok, h)

SpecBearer == AuthInit /\ [][BearerNext]_vars

\* C27: AuthMiddleware lets a request reach its handler only when the bearer
\* token is an access token; a refresh or reset token signed by the same
\* JWTManager is answered with 401, so no handler runs with an empty role,
\* a nil user id and the tenant of the X-Institution-ID header.
C27_OnlyAccessTokensAuthenticate ==
    bearerCtx.status = "next" =>
        (bearerCtx.kind = "access" /\ bearerCtx.user_role # "" /\ bearerCtx.user_id # "")

\* C28: conflict detection only constrains active entries: in every
\* reachable state, an Update whose resulting entry is inactive (the entry
\* stays inactive, or the request sets is_active = false) is not answered
\* with the scheduling-conflict error, whatever active entries occupy the
\* same teacher, section or room at that time.
C28_InactiveUpdateNeverConflicts ==
    \A inst \in Tenants, id \in TTIds : \A req \in UpdateRequests(inst) :
        (/\ UpdateLookups(timetables, academicYears, id, req, inst) = "ok"
         /\ ~Updated(timetables, id, req, inst).IsActive)
        => UpdateOutcome(timetables, academicYears, id, req, inst) # ErrConflict

(***************************************************************************)
(* Academic-year requests served concurrently.  Update loads the row,      *)
(* checks the request against it (Begin) and later writes every column of  *)
(* the row it holds in memory with gorm Save, followed by SetCurrent when  *)
(* is_current = true was asked for (Finish).  Activate and Create run      *)
(* between the two steps as the single calls modelled above.  All         *)
(* requests are made in tenant instA.                                      *)
(***************************************************************************)
BeginAYUpdate(w, id, req, institutionID) ==
    LET found == AYFindByIDWithInstitution(academicYears, id, institutionID)
        old == CHOOSE y \in found : TRUE
        ay == AYApplyUpdate(old, req)
        res == IF found = {} THEN "not found"
               ELSE IF /\ req.Name # "" /\ req.Name # old.Name
                       /\ NameExists(academicYears, req.Name, institutionID, id)
                    THEN "academic year with this name already exists"
               ELSE IF ay.EndDate <= ay.StartDate THEN "end date must be after start date"
               ELSE "ok"
    IN /\ ayInflight[w] = Idle
       /\ IF res = "ok"
          THEN /\ ayInflight' = [ayInflight EXCEPT ![w] =
                                    [op |-> "Update", ay |-> ay, inst |-> institutionID,
                                     setCurrent |-> (req.IsCurrent = {TRUE})]]
               /\ UNCHANGED ayResult
          ELSE /\ ayResult' = [op |-> "update", res |-> res, id |-> id,
                               inst |-> institutionID,
                               setCurrent |-> (req.IsCurrent = {TRUE}),
                               wasCurrent |-> CurrentIds(academicYears, institutionID)]
               /\ UNCHANGED ayInflight
       /\ UNCHANGED <<academicYears, nextAYId, ttVars, probe, authVars, mgmtVars,
                      readResult, subjectVars, secAdminResult, permResult, bearerCtx, rateVars>>

\* db.Save(ay) updates the row with this primary key (a row deleted in the
\* meantime is not matched by the UPDATE: soft delete)
FinishAYUpdate(w) ==
    LET call == ayInflight[w]
        saved == {IF y.ID = call.ay.ID THEN call.ay ELSE y : y \in academicYears}
    IN /\ ayInflight[w] # Idle
       /\ academicYears' = IF call.setCurrent
                           THEN SetCurrent(saved, call.ay.ID, call.inst)
                           ELSE saved
       /\ ayResult' = [op |-> "update", res |-> "ok", id |-> call.ay.ID, inst |-> call.inst,
                       setCurrent |-> call.setCurrent,
                       wasCurrent |-> CurrentIds(academicYears, call.inst)]
       /\ ayInflight' = [ayInflight EXCEPT ![w] = Idle]
       /\ UNCHANGED <<nextAYId, ttVars, probe, authVars, mgmtVars,
                      readResult, subjectVars, secAdminResult, permResult, bearerCtx, rateVars>>

AYConcurrentCreateRequests ==
    {[Name |-> n, StartDate |-> 1, EndDate |-> 2, IsCurrent |-> c] :
        n \in AYNames, c \in BOOLEAN}

AYConcurrentUpdateRequests ==
    {[Name |-> n, StartDate |-> {}, EndDate |-> {}, IsCurrent |-> c] :
        n \in AYNames \cup {""}, c \in {{}, {TRUE}}}

AYConcurrentNext ==
    \/ \E req \in AYConcurrentCreateRequests : AYCreate(req, "instA")
    \/ \E w \in Workers, n \in 1..MaxAY :
          \E req \in AYConcurrentUpdateRequests : BeginAYUpdate(w, AYIds[n], req, "instA")
    \/ \E w \in Workers : FinishAYUpdate(w)
    \/ \E n \in 1..MaxAY : Activate(AYIds[n], "instA")

SpecAYConcurrent == AYInit /\ [][AYConcurrentNext]_vars

\* C29: once an Update of year A and an Activate of year B of the same
\* tenant, served concurrently, have both completed, A and B are not both
\* current: with no Update under way a tenant has at most one current year.
C29_UpdateAndActivateKeepOneCurrent ==
    (\A w \in Workers : ayInflight[w] = Idle) =>
        \A inst \in Tenants : Cardinality(CurrentIds(academicYears, inst)) <= 1

(***************************************************************************)
(* RateLimit middleware for one key.  A request reads the counter with GET *)
(* (a missing key reads as 0), answers 429 when the count has reached      *)
(* config.Requests, and otherwise sends INCR - with EXPIRE only when it    *)
(* read 0 - and goes on to the handler.  Requests are served concurrently, *)
(* so other requests and the expiry of the key fall between the GET and    *)
(* the INCR.                                                               *)
(***************************************************************************)
Requests == 5       \* config.Requests of AuthRateLimit

BeginRateLimit(w) ==
    /\ rateInflight[w] = Idle
    /\ IF ~redisUp
       THEN /\ rateResult' = "next"
            /\ ratePassed' = ratePassed + 1
            /\ UNCHANGED rateInflight
       ELSE IF rateKey.count >= Requests
       THEN /\ rateResult' = "429"
            /\ UNCHANGED <<rateInflight, ratePassed>>
       ELSE /\ rateInflight' = [rateInflight EXCEPT ![w] =
                                   [op |-> "RateLimit", count |-> rateKey.count]]
            /\ UNCHANGED <<rateResult, ratePassed>>
    /\ UNCHANGED <<rateKey, coreVars, mgmtVars, readResult, subjectVars, secAdminResult,
                   permResult, bearerCtx, ayInflight>>

\* the pipeline: INCR creates a missing key with value 1 and no expiry,
\* EXPIRE is sent only by a request that read 0
FinishRateLimit(w) ==
    /\ rateInflight[w] # Idle
    /\ rateKey' = [count |-> rateKey.count + 1,
                   ttl |-> IF rateInflight[w].count = 0 THEN TRUE ELSE rateKey.ttl]
    /\ ratePassed' = ratePassed + 1
    /\ rateResult' = "next"
    /\ rateInflight' = [rateInflight EXCEPT ![w] = Idle]
    /\ UNCHANGED <<coreVars, mgmtVars, readResult, subjectVars, secAdminResult,
                   permResult, bearerCtx, ayInflight>>

\* redis drops a key whose expiry has passed: the window is over
ExpireKey ==
    /\ rateKey.count > 0
    /\ rateKey.ttl
    /\ rateKey' = [count |-> 0, ttl |-> FALSE]
    /\ ratePassed' = 0
    /\ UNCHANGED <<rateInflight, rateResult, coreVars, mgmtVars, readResult, subjectVars,
                   secAdminResult, permResult, bearerCtx, ayInflight>>

RateLimitNext ==
    \/ \E w \in Workers : BeginRateLimit(w)
    \/ \E w \in Workers : FinishRateLimit(w)
    \/ ExpireKey

SpecRateLimit == Init /\ [][RateLimitNext]_vars

\* C30: for one key and one window at most config.Requests requests are let
\* through, also when they are served concurrently, and a counter key that
\* has been incremented has an expiry, so that a key at the limit is
\* admitted again once the window is over.
C30_AtMostRequestsPerWindow ==
    /\ ratePassed <= Requests
    /\ rateKey.count > 0 => rateKey.ttl

====
